---- MODULE Spec2Model ----
(***************************************************************************)
(* Model of the vendoring pipeline of vercel_cli/vendor_update.py          *)
(* (safe_target_path, extract_tgz, verify_tgz, sanitize_package_data,      *)
(* npm_pack, update_vendor) and of the two commands of                     *)
(* vercel_cli/vendor_cli.py (cmd_check, cmd_update).                       *)
(*                                                                         *)
(* Python strings are sequences of one-character strings.  A filesystem    *)
(* path is a sequence of segments, each segment a string.                  *)
(***************************************************************************)
EXTENDS Integers, Sequences, FiniteSets, TLC

VARIABLES
    op,           \* which operation this behaviour runs
    pc,           \* position inside the operation
    member_name,  \* safe_target_path: the member name argument
    dest,         \* safe_target_path / extract_tgz: the destination root
    target,       \* safe_target_path: the returned value
    readable,     \* extract_tgz: whether tarfile.open can read the archive
    archive,      \* extract_tgz: the members of the archive, in order
    idx,          \* extract_tgz: index of the next member of the loop
    fs,           \* the filesystem: path -> entry
    content,      \* verify_tgz: the bytes of the file at tgz_path
    integrity,    \* verify_tgz: the integrity argument
    shasum,       \* verify_tgz: the shasum argument
    outcome,      \* verify_tgz: "ok" or the exception raised
    metadata,     \* update_vendor: what npm_view returned
    failed_at,    \* update_vendor: the step whose exception left the function
    fs0,          \* update_vendor: the filesystem when it was called
    todo,         \* update_vendor: entries the running loop of step 7 has yet to visit
    errors,       \* update_vendor: whether copytree has recorded an error
    sanitized,    \* update_vendor: how the try block of the manifest ended
    install_rc,   \* update_vendor: how the npm install process exited
    work_tree,    \* update_vendor: the working tree when copytree started
    pkg_object,   \* sanitize_package_data: what the argument object holds
    pkg_before,   \* sanitize_package_data: what it held when the call was made
    result,       \* sanitize_package_data: the outcome of the call
    result_again, \* sanitize_package_data: the outcome of a call on the result
    args,         \* cmd_check, cmd_update: the parsed arguments
    vendored_version, \* cmd_check: version in the vendored manifest, None if unreadable
    current,      \* cmd_check: the local `current`
    latest,       \* cmd_check: the local `latest`
    version,      \* cmd_update: the local `version`
    vendor_calls, \* the arguments update_vendor was called with, in order
    updated,      \* whether update_vendor was called and returned
    written,      \* the keyword arguments of each write_github_outputs call, in order
    exit_code,    \* the exit status of the process, -1 while it runs
    completed,    \* npm_pack: the completed process of the tool
    pack_result,  \* npm_pack: the path returned or the error raised
    procs         \* concurrent update_vendor: each invocation's position in step 7

pathVars == <<member_name, target>>
extractVars == <<readable, archive, idx, fs>>
verifyVars == <<content, integrity, shasum, outcome>>
stepVars == <<sanitized, install_rc, work_tree>>
updateVars == <<metadata, failed_at, fs0, todo, errors, stepVars>>
sanitizeVars == <<pkg_object, pkg_before, result, result_again>>
checkVars == <<args, vendored_version, current, latest, version, vendor_calls, updated,
              written, exit_code>>
packVars == <<completed, pack_result>>
vars == <<op, pc, dest, pathVars, extractVars, verifyVars, updateVars, sanitizeVars,
          checkVars, packVars, procs>>

(***************************************************************************)
(* Bounds of the model.                                                    *)
(***************************************************************************)
\* longest remainder, in characters, appended to a head to form a member name
MaxRel == 5
\* most members in an archive
MaxMembers == 2
\* longest digest part, in characters, of an integrity string
MaxB64 == 4

(***************************************************************************)
(* Strings.                                                                *)
(***************************************************************************)
\* Python's None, distinct from every string (whose elements are one character)
None == <<"<None>">>

\* characters str.strip() removes
Whitespace == {" ", "\n"}

\* all sequences over S of length at most n
RECURSIVE SeqsUpTo(_, _)
SeqsUpTo(S, n) ==
    IF n = 0 THEN {<<>>}
    ELSE LET shorter == SeqsUpTo(S, n - 1)
         IN  shorter \cup {Append(s, c) : s \in {t \in shorter : Len(t) = n - 1}, c \in S}

\* str.startswith
startswith(s, prefix) ==
    /\ Len(s) >= Len(prefix)
    /\ SubSeq(s, 1, Len(prefix)) = prefix

\* str.strip(): drop leading and trailing whitespace
strip(s) ==
    LET RECURSIVE lstrip(_)
        lstrip(x) == IF x # <<>> /\ Head(x) \in Whitespace THEN lstrip(Tail(x)) ELSE x
        RECURSIVE rstrip(_)
        rstrip(x) == IF x # <<>> /\ x[Len(x)] \in Whitespace
                     THEN rstrip(SubSeq(x, 1, Len(x) - 1))
                     ELSE x
    IN  rstrip(lstrip(s))

\* str.split(sep): the segments between occurrences of the character sep
RECURSIVE split(_, _)
split(s, sep) ==
    IF \A i \in 1..Len(s) : s[i] # sep THEN <<s>>
    ELSE LET i == CHOOSE k \in 1..Len(s) :
                      s[k] = sep /\ \A j \in 1..(k - 1) : s[j] # sep
         IN  <<SubSeq(s, 1, i - 1)>> \o split(SubSeq(s, i + 1, Len(s)), sep)

(***************************************************************************)
(* pathlib.PurePosixPath, as safe_target_path uses it.                     *)
(***************************************************************************)
Dot == <<".">>
DotDot == <<".", ".">>

\* Path(rel).is_absolute(): a POSIX path is absolute when it starts with "/"
is_absolute(rel) == rel # <<>> /\ Head(rel) = "/"

\* Path(rel).parts for a relative rel: pathlib drops empty segments and "."
\* segments when it parses the string
parts(rel) ==
    SelectSeq(split(rel, "/"), LAMBDA seg : seg # <<>> /\ seg # Dot)

(***************************************************************************)
(* safe_target_path (vendor_update.py:114-134).                            *)
(* The result is a record: accepted = FALSE is None; otherwise path is     *)
(* dest / rel_path.                                                        *)
(***************************************************************************)
PackagePrefix == <<"p", "a", "c", "k", "a", "g", "e", "/">>

Reject == [accepted |-> FALSE, path |-> <<>>]

Accept(p) == [accepted |-> TRUE, path |-> p]

\* safe_target_path testing the prefix without its slash
safe_target_path_bare_prefix(name, d) ==
    IF ~startswith(name, SubSeq(PackagePrefix, 1, Len(PackagePrefix) - 1)) THEN Reject
    ELSE LET rel == SubSeq(name, Len(PackagePrefix) + 1, Len(name))
             rel_parts == parts(rel)
         IN  IF rel = <<>> \/ rel = Dot THEN Reject
             ELSE IF is_absolute(rel) THEN Reject
             ELSE IF \E i \in 1..Len(rel_parts) :
                         \/ strip(rel_parts[i]) # rel_parts[i]
                         \/ strip(rel_parts[i]) \in {Dot, DotDot}
                  THEN Reject
             ELSE Accept(d \o rel_parts)

safe_target_path(name, d) ==
    IF ~startswith(name, PackagePrefix) THEN Reject
    ELSE LET rel == SubSeq(name, Len(PackagePrefix) + 1, Len(name))
             rel_parts == parts(rel)
         IN  IF rel = <<>> \/ rel = Dot THEN Reject
             ELSE IF is_absolute(rel) THEN Reject
             ELSE IF \E i \in 1..Len(rel_parts) :
                         \/ strip(rel_parts[i]) # rel_parts[i]
                         \/ strip(rel_parts[i]) \in {Dot, DotDot}
                  THEN Reject
             ELSE Accept(d \o rel_parts)

(***************************************************************************)
(* Inputs of safe_target_path.                                             *)
(***************************************************************************)
\* what a member name starts with: the root prefix, the bare name "package",
\* another first directory, nothing; then any characters of the alphabet
MemberNames ==
    LET NameAlphabet == {"a", ".", " ", "/"}
        NameHeads == { PackagePrefix,
                       <<"p", "a", "c", "k", "a", "g", "e">>,
                       <<"l", "i", "b", "/">>,
                       <<>> }
    IN  {h \o t : h \in NameHeads, t \in SeqsUpTo(NameAlphabet, MaxRel)}

Dests == { <<<<"o", "u", "t">>>>, <<<<"t", "m", "p">>, <<"w", "o", "r", "k">>>> }

(***************************************************************************)
(* The filesystem.  fs maps each existing path to [kind, data]; kind is    *)
(* "dir" or "file" in the program ("symlink", "hardlink" name what a link  *)
(* would be, were one ever materialised).                                  *)
(***************************************************************************)
EmptyFs == [p \in {} |-> [kind |-> "dir", data |-> ""]]

DirEntry == [kind |-> "dir", data |-> ""]

FileEntry(data) == [kind |-> "file", data |-> data]

Exists(f, p) == p \in DOMAIN f

IsDir(f, p) == Exists(f, p) /\ f[p].kind = "dir"

\* the non-empty prefixes of path p, p included
Prefixes(p) == {SubSeq(p, 1, n) : n \in 1..Len(p)}

parent(p) == SubSeq(p, 1, Len(p) - 1)

\* the outcome of a filesystem call: the filesystem after it, and whether it raised
Ok(f) == [fs |-> f, raised |-> FALSE]

Raised(f) == [fs |-> f, raised |-> TRUE]

\* Path.mkdir(parents=True, exist_ok=True): raises when the path or one of
\* its ancestors exists and is not a directory
mkdir_parents(f, p) ==
    IF \E q \in Prefixes(p) : Exists(f, q) /\ ~IsDir(f, q) THEN Raised(f)
    ELSE Ok([q \in DOMAIN f \cup Prefixes(p) |-> IF Exists(f, q) THEN f[q] ELSE DirEntry])

\* target.open("wb") followed by copyfileobj: creates or truncates the file;
\* raises IsADirectoryError on a directory
write_file(f, p, data) ==
    IF IsDir(f, p) THEN Raised(f)
    ELSE Ok([q \in DOMAIN f \cup {p} |-> IF q = p THEN FileEntry(data) ELSE f[q]])

(***************************************************************************)
(* Archive members: tarfile.TarInfo with its name, type and bytes.         *)
(***************************************************************************)
MemberTypes == {"reg", "dir", "sym", "lnk", "fifo"}

Datas == {"bytes1", "bytes2"}

isreg(m) == m.type = "reg"

isdir(m) == m.type = "dir"

issym(m) == m.type = "sym"

islnk(m) == m.type = "lnk"

(***************************************************************************)
(* _extract_member (vendor_update.py:137-150).                             *)
(***************************************************************************)
_extract_member(f, member, tgt) ==
    IF isdir(member) THEN mkdir_parents(f, tgt)
    ELSE IF isreg(member)
    THEN LET made == mkdir_parents(f, parent(tgt))
         IN  IF made.raised THEN made ELSE write_file(made.fs, tgt, member.data)
    ELSE Ok(f)

(***************************************************************************)
(* The body of the loop of extract_tgz (vendor_update.py:157-163).         *)
(***************************************************************************)
\* the loop body handing every member to tarfile's own extraction, which
\* materialises links
extract_tgz_member_with_links(f, member, d) ==
    LET tgt == safe_target_path(member.name, d)
    IN  IF ~tgt.accepted THEN Ok(f)
        ELSE IF issym(member) \/ islnk(member)
        THEN LET made == mkdir_parents(f, parent(tgt.path))
             IN  IF made.raised \/ Exists(made.fs, tgt.path) THEN Raised(made.fs)
                 ELSE Ok([q \in DOMAIN made.fs \cup {tgt.path} |->
                             IF q = tgt.path
                             THEN [kind |-> IF issym(member) THEN "symlink" ELSE "hardlink",
                                   data |-> ""]
                             ELSE made.fs[q]])
        ELSE _extract_member(f, member, tgt.path)

\* the loop body raising on a member it should skip
extract_tgz_member_raising(f, member, d) ==
    IF issym(member) \/ islnk(member) THEN Ok(f)
    ELSE LET tgt == safe_target_path(member.name, d)
         IN  IF ~tgt.accepted THEN Raised(f)
             ELSE _extract_member(f, member, tgt.path)

extract_tgz_member(f, member, d) ==
    IF issym(member) \/ islnk(member) THEN Ok(f)
    ELSE LET tgt == safe_target_path(member.name, d)
         IN  IF ~tgt.accepted THEN Ok(f)
             ELSE _extract_member(f, member, tgt.path)

\* the loop of extract_tgz over members[i..], from filesystem f; an exception
\* leaves the loop
RECURSIVE extract_tgz_loop(_, _, _, _)
extract_tgz_loop(f, members, i, d) ==
    IF i > Len(members) THEN Ok(f)
    ELSE LET r == extract_tgz_member(f, members[i], d)
         IN  IF r.raised THEN r ELSE extract_tgz_loop(r.fs, members, i + 1, d)

\* extract_tgz (vendor_update.py:153-163) as a whole
extract_tgz(f, is_readable, members, d) ==
    LET made == mkdir_parents(f, d)
    IN  IF made.raised THEN made
        ELSE IF ~is_readable THEN Raised(made.fs)
        ELSE extract_tgz_loop(made.fs, members, 1, d)

(***************************************************************************)
(* Inputs of extract_tgz.                                                  *)
(***************************************************************************)
ExtractNames ==
    LET ExtractTails == { <<"a">>, <<"a", "/", "b">>, <<".", ".", "/", "x">>, <<".", "/">> }
    IN  {h \o t : h \in {PackagePrefix, <<>>}, t \in ExtractTails}

\* tarfile strips the trailing slashes of a directory member's name when it
\* reads the header
RECURSIVE rstrip_slash(_)
rstrip_slash(s) ==
    IF s # <<>> /\ s[Len(s)] = "/" THEN rstrip_slash(SubSeq(s, 1, Len(s) - 1)) ELSE s

Members ==
    {[name |-> n, type |-> "reg", data |-> x] : n \in ExtractNames, x \in Datas}
    \cup {[name |-> rstrip_slash(n), type |-> "dir", data |-> ""] : n \in ExtractNames}
    \cup {[name |-> n, type |-> t, data |-> ""] :
            n \in ExtractNames, t \in MemberTypes \ {"reg", "dir"}}

Archives == UNION {[1..n -> Members] : n \in 0..MaxMembers}

(***************************************************************************)
(* Text conversions verify_tgz relies on.                                  *)
(***************************************************************************)
UpperLetters == <<"A", "B", "C", "D", "E", "F", "G", "H", "I", "J", "K", "L", "M", "N", "O", "P", "Q", "R", "S", "T", "U", "V", "W", "X", "Y", "Z">>

LowerLetters == <<"a", "b", "c", "d", "e", "f", "g", "h", "i", "j", "k", "l", "m", "n", "o", "p", "q", "r", "s", "t", "u", "v", "w", "x", "y", "z">>

\* the position of character c in sequence cs, 0 when absent
IndexIn(cs, c) ==
    IF \E i \in 1..Len(cs) : cs[i] = c
    THEN CHOOSE i \in 1..Len(cs) : cs[i] = c
    ELSE 0

\* str.lower
lower(s) ==
    [i \in 1..Len(s) |->
        IF IndexIn(UpperLetters, s[i]) # 0
        THEN LowerLetters[IndexIn(UpperLetters, s[i])]
        ELSE s[i]]

\* str.upper
upper(s) ==
    [i \in 1..Len(s) |->
        IF IndexIn(LowerLetters, s[i]) # 0
        THEN UpperLetters[IndexIn(LowerLetters, s[i])]
        ELSE s[i]]

\* integrity.split("-", 1): at most one split, at the first separator
split_once(s, sep) ==
    IF \A i \in 1..Len(s) : s[i] # sep THEN <<s>>
    ELSE LET i == CHOOSE k \in 1..Len(s) :
                      s[k] = sep /\ \A j \in 1..(k - 1) : s[j] # sep
         IN  <<SubSeq(s, 1, i - 1), SubSeq(s, i + 1, Len(s))>>

\* the base64 alphabet; a character's value is its position less one
Base64Alphabet ==
    UpperLetters \o LowerLetters
    \o <<"0", "1", "2", "3", "4", "5", "6", "7", "8", "9", "+", "/">>

DecodeError == [ok |-> FALSE, bytes |-> <<>>]

Decoded(bytes) == [ok |-> TRUE, bytes |-> bytes]

\* binascii.a2b_base64 without strict mode, as base64.b64decode(s) calls it:
\* characters outside the alphabet are discarded, a completed pad sequence
\* ends the input, an incomplete last quad is an error
RECURSIVE a2b_base64(_, _, _, _, _, _)
a2b_base64(s, i, quad_pos, leftchar, pads, out) ==
    IF i > Len(s)
    THEN IF quad_pos # 0 THEN DecodeError ELSE Decoded(out)
    ELSE IF s[i] = "="
    THEN IF quad_pos >= 2 /\ quad_pos + pads + 1 >= 4
         THEN Decoded(out)
         ELSE a2b_base64(s, i + 1, quad_pos, leftchar,
                         IF quad_pos >= 2 THEN pads + 1 ELSE pads, out)
    ELSE IF IndexIn(Base64Alphabet, s[i]) = 0
    THEN a2b_base64(s, i + 1, quad_pos, leftchar, pads, out)
    ELSE LET v == IndexIn(Base64Alphabet, s[i]) - 1
         IN  CASE quad_pos = 0 -> a2b_base64(s, i + 1, 1, v, 0, out)
               [] quad_pos = 1 ->
                    a2b_base64(s, i + 1, 2, v % 16, 0,
                               Append(out, (leftchar * 4) + (v \div 16)))
               [] quad_pos = 2 ->
                    a2b_base64(s, i + 1, 3, v % 4, 0,
                               Append(out, (leftchar * 16) + (v \div 4)))
               [] quad_pos = 3 ->
                    a2b_base64(s, i + 1, 0, 0, 0, Append(out, (leftchar * 64) + v))

b64decode(s) == a2b_base64(s, 1, 0, 0, 0, <<>>)

HexDigits == <<"0", "1", "2", "3", "4", "5", "6", "7", "8", "9", "a", "b", "c", "d", "e", "f">>

\* bytes.hex, which hasher.hexdigest() returns: two lower-case digits a byte
RECURSIVE hex(_)
hex(bytes) ==
    IF bytes = <<>> THEN <<>>
    ELSE <<HexDigits[(Head(bytes) \div 16) + 1], HexDigits[(Head(bytes) % 16) + 1]>>
         \o hex(Tail(bytes))

(***************************************************************************)
(* hashlib, as verify_tgz uses it.  getattr(hashlib, algo) finds a digest  *)
(* constructor, an extendable-output constructor (whose digest() needs a   *)
(* length), another attribute of the module, or nothing.                   *)
(***************************************************************************)
Sha512 == <<"s", "h", "a", "5", "1", "2">>

Sha1 == <<"s", "h", "a", "1">>

Shake128 == <<"s", "h", "a", "k", "e", "_", "1", "2", "8">>

HashlibNew == <<"n", "e", "w">>

hashlib_attr(algo) ==
    CASE algo \in {Sha512, Sha1} -> "digest"
      [] algo = Shake128 -> "xof"
      [] algo = HashlibNew -> "function"
      [] OTHER -> "missing"

Contents == {"tgz0", "tgz1"}

\* the digest of a file content: hashlib's functions are stood for by a
\* table of three-byte digests, different for different contents
digest(algo, data) ==
    CASE algo = Sha512 /\ data = "tgz0" -> <<172, 0, 0>>
      [] algo = Sha512 /\ data = "tgz1" -> <<2, 176, 0>>
      [] algo = Sha1 /\ data = "tgz0" -> <<0, 10, 192>>
      [] algo = Sha1 /\ data = "tgz1" -> <<0, 0, 43>>
      [] algo = Sha512 /\ data = "tgz2" -> <<174, 0, 0>>
      [] algo = Sha1 /\ data = "tgz2" -> <<0, 0, 235>>
      [] algo = Sha512 /\ data = "tgz3" -> <<0, 186, 0>>
      [] algo = Sha1 /\ data = "tgz3" -> <<2, 0, 0>>
      [] algo = Sha512 /\ data = "tgz4" -> <<0, 0, 174>>
      [] algo = Sha1 /\ data = "tgz4" -> <<186, 0, 0>>
      [] algo = Sha512 /\ data = "tgz5" -> <<43, 0, 0>>
      [] algo = Sha1 /\ data = "tgz5" -> <<0, 172, 0>>

hexdigest(algo, data) == hex(digest(algo, data))

(***************************************************************************)
(* verify_tgz (vendor_update.py:181-216): "ok" for a normal return, else   *)
(* the type of the exception that leaves the function.                     *)
(***************************************************************************)
\* Python truthiness of a str | None argument
Truthy(x) == x # None /\ x # <<>>

\* verify_tgz falling back to the shasum when the integrity digest differs
verify_tgz_fallback(data, integ, sha) ==
    LET sha_ok == ~Truthy(sha) \/ hexdigest(Sha1, data) = sha
        pieces == split_once(integ, "-")
        algo == lower(pieces[1])
        expected == b64decode(pieces[2])
    IN  IF Truthy(integ)
        THEN IF Len(pieces) # 2 \/ ~expected.ok THEN "RuntimeError"
             ELSE IF hashlib_attr(algo) = "missing" THEN "RuntimeError"
             ELSE IF hashlib_attr(algo) # "digest" THEN "TypeError"
             ELSE IF digest(algo, data) # expected.bytes
                  THEN IF sha_ok THEN "ok" ELSE "RuntimeError"
             ELSE "ok"
        ELSE IF sha_ok THEN "ok" ELSE "RuntimeError"

\* verify_tgz comparing the hex strings without regard to case
verify_tgz_casefold(data, integ, sha) ==
    LET pieces == split_once(integ, "-")
        algo == lower(pieces[1])
        expected == b64decode(pieces[2])
    IN  IF Truthy(integ)
        THEN IF Len(pieces) # 2 \/ ~expected.ok THEN "RuntimeError"
             ELSE IF hashlib_attr(algo) = "missing" THEN "RuntimeError"
             ELSE IF hashlib_attr(algo) # "digest" THEN "TypeError"
             ELSE IF digest(algo, data) # expected.bytes THEN "RuntimeError"
             ELSE "ok"
        ELSE IF Truthy(sha)
        THEN IF hexdigest(Sha1, data) # lower(sha) THEN "RuntimeError" ELSE "ok"
        ELSE "ok"

verify_tgz(data, integ, sha) ==
    LET pieces == split_once(integ, "-")
        algo == lower(pieces[1])
        expected == b64decode(pieces[2])
    IN  IF Truthy(integ)
        THEN IF Len(pieces) # 2 \/ ~expected.ok THEN "RuntimeError"
             ELSE IF hashlib_attr(algo) = "missing" THEN "RuntimeError"
             ELSE IF hashlib_attr(algo) # "digest" THEN "TypeError"
             ELSE IF digest(algo, data) # expected.bytes THEN "RuntimeError"
             ELSE "ok"
        ELSE IF Truthy(sha)
        THEN IF hexdigest(Sha1, data) # sha THEN "RuntimeError" ELSE "ok"
        ELSE "ok"

(***************************************************************************)
(* Inputs of verify_tgz.                                                   *)
(***************************************************************************)
Integrities ==
    LET AlgoNames ==
            { Sha512, upper(Sha512), Sha1, Shake128, HashlibNew, <<"f", "o", "o">>, <<>> }
        Base64Chars == {"A", "r", "=", "-"}
    IN  {None, <<>>}
        \cup AlgoNames
        \cup {a \o <<"-">> \o b : a \in AlgoNames, b \in SeqsUpTo(Base64Chars, MaxB64)}

Shasums ==
    {None, <<>>, <<"d", "e", "a", "d", "b", "e", "e", "f">>}
    \cup {hexdigest(Sha1, c) : c \in Contents}
    \cup {upper(hexdigest(Sha1, c)) : c \in Contents}

(***************************************************************************)
(* Python values of a manifest (package.json).  A dict is the sequence of  *)
(* its <<key, value>> items in insertion order, keys distinct.  The value  *)
(* of a top-level key is a string, null or a dict of strings.              *)
(***************************************************************************)
Str(s) == [t |-> "str", s |-> s, d |-> <<>>]

Null == [t |-> "null", s |-> <<>>, d |-> <<>>]

Dict(items) == [t |-> "dict", s |-> <<>>, d |-> items]

\* list(d.keys())
keys(d) == [i \in 1..Len(d) |-> d[i][1]]

\* key in d
has_key(d, k) == \E i \in 1..Len(d) : d[i][1] = k

\* d[k], for a key that is there
dict_get(d, k) == d[CHOOSE i \in 1..Len(d) : d[i][1] = k][2]

\* d.pop(k, None): d without the item of k
dict_pop(d, k) == SelectSeq(d, LAMBDA item : item[1] # k)

\* d[k] = v: the value changes in place, a new key goes last
dict_set(d, k, v) ==
    IF has_key(d, k)
    THEN [i \in 1..Len(d) |-> IF d[i][1] = k THEN <<k, v>> ELSE d[i]]
    ELSE Append(d, <<k, v>>)

\* ord(c), up to the order it gives: the place of c among the characters
\* the model uses, listed by code point
ord(c) ==
    IndexIn(<<"-", ".", "/", "0", "1", "2", "3", "4", "5", "6", "7", "8", "9", "@">>
            \o UpperLetters \o <<"_">> \o LowerLetters, c)

\* a < b for strings: by code point, a proper prefix first
RECURSIVE str_lt(_, _)
str_lt(a, b) ==
    IF b = <<>> THEN FALSE
    ELSE IF a = <<>> THEN TRUE
    ELSE IF Head(a) = Head(b) THEN str_lt(Tail(a), Tail(b))
    ELSE ord(Head(a)) < ord(Head(b))

\* sorted(ks), for distinct strings
RECURSIVE sorted(_)
sorted(ks) ==
    IF ks = <<>> THEN <<>>
    ELSE LET least == CHOOSE i \in 1..Len(ks) : \A j \in 1..Len(ks) : ~str_lt(ks[j], ks[i])
         IN  <<ks[least]>>
             \o sorted([i \in 1..(Len(ks) - 1) |-> IF i < least THEN ks[i] ELSE ks[i + 1]])

(***************************************************************************)
(* sanitize_package_data (vendor_update.py:33-63).                         *)
(***************************************************************************)
\* the top-level keys of a manifest the code or the model names
Key ==
    [name |-> <<"n", "a", "m", "e">>,
     version |-> <<"v", "e", "r", "s", "i", "o", "n">>,
     dependencies |-> <<"d", "e", "p", "e", "n", "d", "e", "n", "c", "i", "e", "s">>,
     devDependencies |->
         <<"d", "e", "v", "D", "e", "p", "e", "n", "d", "e", "n", "c", "i", "e", "s">>,
     packageManager |->
         <<"p", "a", "c", "k", "a", "g", "e", "M", "a", "n", "a", "g", "e", "r">>,
     pnpm |-> <<"p", "n", "p", "m">>,
     workspaces |-> <<"w", "o", "r", "k", "s", "p", "a", "c", "e", "s">>]

\* names of npm packages: the three of the allow-list, and one that is not
Package ==
    [build_utils |-> <<"@", "v", "e", "r", "c", "e", "l", "/",
                       "b", "u", "i", "l", "d", "-", "u", "t", "i", "l", "s">>,
     detect_agent |-> <<"@", "v", "e", "r", "c", "e", "l", "/",
                        "d", "e", "t", "e", "c", "t", "-", "a", "g", "e", "n", "t">>,
     python |-> <<"@", "v", "e", "r", "c", "e", "l", "/", "p", "y", "t", "h", "o", "n">>,
     chalk |-> <<"c", "h", "a", "l", "k">>]

ALLOWED_RUNTIME_DEPENDENCIES == {Package.build_utils, Package.detect_agent, Package.python}

\* dict(x): a copy of a dict; the empty string has no items; a string with
\* characters and null are rejected
dict_of(x) ==
    CASE x.t = "dict" -> [raised |-> "no", d |-> x.d]
      [] x.t = "null" -> [raised |-> "TypeError", d |-> <<>>]
      [] x.t = "str" /\ x.s = <<>> -> [raised |-> "no", d |-> <<>>]
      [] x.t = "str" /\ x.s # <<>> -> [raised |-> "ValueError", d |-> <<>>]

\* filtered_deps as it is, in insertion order
insertion_order_dependencies(filtered_deps) == filtered_deps

\* filtered_deps last key first
reversed_dependencies(filtered_deps) ==
    [i \in 1..Len(filtered_deps) |-> filtered_deps[Len(filtered_deps) + 1 - i]]

\* line 62, right-hand side: the items of filtered_deps by sorted key
sorted_dependencies(filtered_deps) ==
    LET ks == sorted(keys(filtered_deps))
    IN  [i \in 1..Len(ks) |-> <<ks[i], dict_get(filtered_deps, ks[i])>>]

\* lines 53-63 on the dict object `data`: what the object holds afterwards,
\* and whether line 56 raised
sanitize_body(data) ==
    LET popped == dict_pop(dict_pop(dict_pop(dict_pop(data, Key.devDependencies),
                                             Key.packageManager), Key.pnpm),
                           Key.workspaces)
        filter_allowed(deps_items) ==
            SelectSeq(deps_items, LAMBDA item : item[1] \in ALLOWED_RUNTIME_DEPENDENCIES)
        deps == IF has_key(popped, Key.dependencies)
                THEN dict_get(popped, Key.dependencies)
                ELSE Dict(<<>>)
        original_deps == dict_of(deps)
    IN  IF original_deps.raised # "no"
        THEN [raised |-> original_deps.raised, data |-> popped]
        ELSE [raised |-> "no",
              data |-> dict_set(popped, Key.dependencies,
                                Dict(sorted_dependencies(filter_allowed(original_deps.d))))]

\* the function working on its argument itself, without the copy of line 52
sanitize_package_data_in_place(pkg_data) ==
    LET r == sanitize_body(pkg_data)
    IN  [raised |-> r.raised,
         value |-> IF r.raised = "no" THEN r.data ELSE <<>>,
         arg |-> r.data]

\* sanitize_package_data(pkg_data): the exception raised or "no", the dict
\* returned, and what the argument object holds after the call.  Line 52
\* makes `data` a new object, so the argument is as it was
sanitize_package_data(pkg_data) ==
    LET r == sanitize_body(pkg_data)
    IN  [raised |-> r.raised,
         value |-> IF r.raised = "no" THEN r.data ELSE <<>>,
         arg |-> pkg_data]

(***************************************************************************)
(* JSON text.  The content of a file is a sequence of tokens; a string     *)
(* token starts with a double quote.  Whitespace, commas and colons are    *)
(* left out, except the newline update_vendor appends.                     *)
(***************************************************************************)
Token ==
    [lbrace |-> <<"{">>, rbrace |-> <<"}">>, null |-> <<"n", "u", "l", "l">>,
     newline |-> <<"\n">>]

Quote(s) == <<"\"">> \o s

IsStringToken(tok) == tok # <<>> /\ tok[1] = "\""

Unquote(tok) == Tail(tok)

\* the content of a file that holds the one word w
Text(w) == <<<<w>>>>

\* the items of d by sorted key (sort_keys=True)
items_by_key(d) ==
    LET ks == sorted(keys(d))
    IN  [i \in 1..Len(ks) |-> <<ks[i], dict_get(d, ks[i])>>]

\* the tokens of the items of a dict of strings
RECURSIVE string_members(_)
string_members(items) ==
    IF items = <<>> THEN <<>>
    ELSE <<Quote(items[1][1]), Quote(items[1][2])>> \o string_members(Tail(items))

value_tokens(v) ==
    CASE v.t = "str" -> <<Quote(v.s)>>
      [] v.t = "null" -> <<Token.null>>
      [] v.t = "dict" -> <<Token.lbrace>> \o string_members(items_by_key(v.d)) \o <<Token.rbrace>>

RECURSIVE object_members(_)
object_members(items) ==
    IF items = <<>> THEN <<>>
    ELSE <<Quote(items[1][1])>> \o value_tokens(items[1][2]) \o object_members(Tail(items))

\* json.dumps(data, indent=2, sort_keys=True)
json_dumps(data) == <<Token.lbrace>> \o object_members(items_by_key(data)) \o <<Token.rbrace>>

\* the same object written with its keys in insertion order, as a publisher
\* may have written it
json_text(data) ==
    LET unsorted(v) == CASE v.t = "dict" -> <<Token.lbrace>> \o string_members(v.d) \o <<Token.rbrace>>
                         [] OTHER -> value_tokens(v)
        RECURSIVE walk(_)
        walk(items) ==
            IF items = <<>> THEN <<>>
            ELSE <<Quote(items[1][1])>> \o unsorted(items[1][2]) \o walk(Tail(items))
    IN  <<Token.lbrace>> \o walk(data) \o <<Token.rbrace>>

ParseError == [ok |-> FALSE, items |-> <<>>, next |-> 0]

\* the members of an object of strings from token i on, up to its "}"
RECURSIVE parse_string_members(_, _, _)
parse_string_members(toks, i, acc) ==
    IF i > Len(toks) THEN ParseError
    ELSE IF toks[i] = Token.rbrace THEN [ok |-> TRUE, items |-> acc, next |-> i + 1]
    ELSE IF i + 1 > Len(toks) \/ ~IsStringToken(toks[i]) \/ ~IsStringToken(toks[i + 1])
    THEN ParseError
    ELSE parse_string_members(toks, i + 2,
                              dict_set(acc, Unquote(toks[i]), Unquote(toks[i + 1])))

\* the members of the top-level object from token i on, up to its "}"
RECURSIVE parse_members(_, _, _)
parse_members(toks, i, acc) ==
    IF i > Len(toks) THEN ParseError
    ELSE IF toks[i] = Token.rbrace THEN [ok |-> TRUE, items |-> acc, next |-> i + 1]
    ELSE IF i + 1 > Len(toks) \/ ~IsStringToken(toks[i]) THEN ParseError
    ELSE LET key == Unquote(toks[i])
             v == toks[i + 1]
             inner == parse_string_members(toks, i + 2, <<>>)
         IN  IF IsStringToken(v)
             THEN parse_members(toks, i + 2, dict_set(acc, key, Str(Unquote(v))))
             ELSE IF v = Token.null
             THEN parse_members(toks, i + 2, dict_set(acc, key, Null))
             ELSE IF v = Token.lbrace /\ inner.ok
             THEN parse_members(toks, inner.next, dict_set(acc, key, Dict(inner.items)))
             ELSE ParseError

\* json.loads(text) for a text that should hold one object: the dict, or
\* JSONDecodeError.  Trailing newlines are whitespace
json_loads(text) ==
    IF text = <<>> \/ text[1] # Token.lbrace THEN [ok |-> FALSE, value |-> <<>>]
    ELSE LET r == parse_members(text, 2, <<>>)
         IN  IF r.ok /\ \A j \in r.next..Len(text) : text[j] = Token.newline
             THEN [ok |-> TRUE, value |-> r.items]
             ELSE [ok |-> FALSE, value |-> <<>>]

(***************************************************************************)
(* The manifests the model draws from.                                     *)
(***************************************************************************)
\* most items in a dependencies mapping
MaxDeps == 3
\* most top-level keys of a manifest
MaxKeys == 2

\* the dicts of at most n items drawn from Items, keys distinct
RECURSIVE DictsUpTo(_, _)
DictsUpTo(Items, n) ==
    IF n = 0 THEN {<<>>}
    ELSE LET shorter == DictsUpTo(Items, n - 1)
         IN  shorter \cup
             {Append(y[1], y[2]) :
                  y \in {z \in shorter \X Items :
                             Len(z[1]) = n - 1 /\ ~has_key(z[1], z[2][1])}}

\* the "dependencies" mappings: the four package names, two version ranges
DependencyDicts ==
    DictsUpTo({Package.build_utils, Package.detect_agent, Package.python, Package.chalk}
                  \X {<<"1">>, <<"^", "2">>},
              MaxDeps)

\* what "dependencies" may hold: a mapping, null, a string
DependencyValues ==
    {Dict(d) : d \in DependencyDicts} \cup {Null, Str(<<>>), Str(<<"x">>)}

Versions == {<<"1", ".", "0">>, <<"2", ".", "0">>, <<"3", ".", "0">>}

TopLevelItems ==
    {<<Key.name, Str(<<"v", "e", "r", "c", "e", "l">>)>>,
     <<Key.devDependencies, Dict(<< <<Package.chalk, <<"1">>>> >>)>>,
     <<Key.packageManager, Str(Key.pnpm)>>,
     <<Key.pnpm, Dict(<<>>)>>,
     <<Key.workspaces, Null>>}
    \cup {<<Key.version, Str(v)>> : v \in Versions}
    \cup {<<Key.dependencies, v>> : v \in DependencyValues}

Manifests == DictsUpTo(TopLevelItems, MaxKeys)

(***************************************************************************)
(* update_vendor (vendor_update.py:242-289): the places and the inputs.    *)
(***************************************************************************)
VENDOR_DIR == <<<<"v", "e", "n", "d", "o", "r">>>>

\* the directory tempfile.TemporaryDirectory() makes
TmpDir == <<<<"t", "m", "p">>>>

work_dir == TmpDir \o <<<<"w", "o", "r", "k">>>>

\* the names of the files and directories of the model
Name ==
    [tgz |-> <<"v", "e", "r", "c", "e", "l", ".", "t", "g", "z">>,
     gitkeep |-> <<".", "g", "i", "t", "k", "e", "e", "p">>,
     package_json |-> <<"p", "a", "c", "k", "a", "g", "e", ".", "j", "s", "o", "n">>,
     index_js |-> <<"i", "n", "d", "e", "x", ".", "j", "s">>,
     old_dir |-> <<"o", "l", "d", "_", "d", "i", "r">>,
     old_file |-> <<"o", "l", "d", "_", "f", "i", "l", "e", ".", "t", "x", "t">>,
     node_modules |-> <<"n", "o", "d", "e", "_", "m", "o", "d", "u", "l", "e", "s">>]

\* the paths of f strictly below root
Under(f, root) ==
    {p \in DOMAIN f : Len(p) > Len(root) /\ SubSeq(p, 1, Len(root)) = root}

\* root.iterdir(): the entries of f directly in root
Children(f, root) == {p \in Under(f, root) : Len(p) = Len(root) + 1}

\* the part of f at and below root
Tree(f, root) ==
    [p \in Under(f, root) \cup ({root} \cap DOMAIN f) |-> f[p]]

\* shutil.rmtree(root) / root.unlink(): f without root and what is below it
RemoveTree(f, root) ==
    [p \in DOMAIN f \ (Under(f, root) \cup {root}) |-> f[p]]

\* what a vendored directory may hold before the call
OldTree ==
    (VENDOR_DIR \o <<Name.gitkeep>>) :> FileEntry(<<>>)
    @@ (VENDOR_DIR \o <<Name.old_file>>) :> FileEntry(Text("old"))
    @@ (VENDOR_DIR \o <<Name.old_dir>>) :> DirEntry
    @@ (VENDOR_DIR \o <<Name.old_dir, Name.index_js>>) :> FileEntry(Text("old"))
    @@ (VENDOR_DIR \o <<Name.package_json>>) :> FileEntry(Text("old manifest"))

\* the filesystems update_vendor may be called in: no vendored directory,
\* or one holding any of the old entries
InitialFilesystems ==
    {EmptyFs}
    \cup { [p \in {VENDOR_DIR} \cup {o \in DOMAIN OldTree : o[2] \in names} |->
               IF p = VENDOR_DIR THEN DirEntry ELSE OldTree[p]] :
           names \in SUBSET {Name.gitkeep, Name.old_file, Name.old_dir, Name.package_json} }

Reg(name, data) == [name |-> name, type |-> "reg", data |-> data]

\* manifests a published package may carry: a full one, one without
\* "dependencies", one whose "dependencies" is null
PublishedManifests ==
    { << <<Key.name, Str(<<"v", "e", "r", "c", "e", "l">>)>>,
         <<Key.version, Str(<<"1", ".", "0">>)>>,
         <<Key.dependencies, Dict(<< <<Package.python, <<"^", "2">>>>,
                                     <<Package.chalk, <<"1">>>>,
                                     <<Package.build_utils, <<"1">>>> >>)>>,
         <<Key.devDependencies, Dict(<< <<Package.chalk, <<"1">>>> >>)>>,
         <<Key.workspaces, Null>> >>,
      << <<Key.version, Str(<<"2", ".", "0">>)>>,
         <<Key.packageManager, Str(Key.pnpm)>> >>,
      << <<Key.version, Str(<<"1", ".", "0">>)>>,
         <<Key.dependencies, Null>>,
         <<Key.devDependencies, Dict(<< <<Package.chalk, <<"1">>>> >>)>> >> }

\* the tarballs npm pack may produce: a package with a parsable manifest, one
\* with an unparsable manifest, a hostile archive whose last member cannot
\* be written, a file tarfile cannot read, a package without a manifest
Tarballs ==
    { [content |-> "tgz0", readable |-> TRUE,
       members |-> << Reg(PackagePrefix \o Name.package_json, json_text(m)),
                      Reg(PackagePrefix \o Name.index_js, Text("js")) >>] :
          m \in PublishedManifests }
    \cup
    { [content |-> "tgz1", readable |-> TRUE,
       members |-> << Reg(PackagePrefix \o Name.package_json, Text("not json")),
                      Reg(PackagePrefix \o Name.index_js, Text("js")) >>],
      [content |-> "tgz2", readable |-> TRUE,
       members |-> << [name |-> PackagePrefix \o <<"a">>, type |-> "sym", data |-> <<>>],
                      Reg(<<".", ".", "/">> \o Name.index_js, Text("js")),
                      Reg(PackagePrefix \o Name.index_js, Text("js")),
                      Reg(PackagePrefix \o Name.index_js \o <<"/", "a">>, Text("js")) >>],
      [content |-> "tgz3", readable |-> FALSE, members |-> <<>>],
      [content |-> "tgz4", readable |-> TRUE,
       members |-> << Reg(PackagePrefix \o Name.index_js, Text("js")) >>] }

\* the "dist" mapping of the registry metadata: each of the keys "integrity"
\* and "shasum" is there (None for a JSON null) or not
Dists ==
    LET MetaIntegrities ==
            { None,
              Sha512 \o <<"-", "r", "A", "A", "A">>,
              Sha512 \o <<"-", "A", "r", "A", "A">>,
              <<"f", "o", "o", "-", "A", "A", "A", "A">> }
        MetaShasums ==
            {None, hexdigest(Sha1, "tgz0"), <<"d", "e", "a", "d", "b", "e", "e", "f">>}
    IN  { [k \in {} |-> None] }
        \cup {[integrity |-> i] : i \in MetaIntegrities}
        \cup {[shasum |-> h] : h \in MetaShasums}
        \cup {[integrity |-> i, shasum |-> h] : i \in MetaIntegrities, h \in MetaShasums}

\* a mapping without "dist"; also the value of metadata before npm_view returns
NoMetadata == [has_dist |-> FALSE, dist |-> <<>>]

\* what npm_view may return: a mapping without "dist", or with one
Metadatas ==
    {NoMetadata} \cup {[has_dist |-> TRUE, dist |-> x] : x \in Dists}

(***************************************************************************)
(* Specification of safe_target_path: one call on any name and root.       *)
(***************************************************************************)
NoTarget == [accepted |-> FALSE, path |-> <<<<"<unset>">>>>]

\* the value of result before sanitize_package_data is called
NoResult == [raised |-> "none", value |-> <<>>, arg |-> <<>>]

\* the value of pack_result before npm_pack returns
NoPath == [raised |-> "none", text |-> <<>>, path |-> <<>>]

\* the variables of one operation while another operation runs
Idle(operation) ==
    CASE operation = "update_vendor" ->
             /\ metadata = NoMetadata
             /\ failed_at = "none"
             /\ fs0 = EmptyFs
             /\ todo = {}
             /\ errors = FALSE
             /\ sanitized = "none"
             /\ install_rc = "none"
             /\ work_tree = EmptyFs
      [] operation = "sanitize_package_data" ->
             /\ pkg_object = <<>>
             /\ pkg_before = <<>>
             /\ result = NoResult
             /\ result_again = NoResult
      [] operation = "cmd_check" ->
             /\ args = [vendor |-> FALSE, github_outputs |-> FALSE]
             /\ vendored_version = None
             /\ current = None
             /\ latest = None
             /\ version = None
             /\ vendor_calls = <<>>
             /\ updated = FALSE
             /\ written = <<>>
             /\ exit_code = -1
      [] operation = "verify_tgz" ->
             /\ content = ""
             /\ integrity = None
             /\ shasum = None
             /\ outcome = "none"
      [] operation = "npm_pack" ->
             /\ completed = [returncode |-> 0, stdout |-> None, stderr |-> None]
             /\ pack_result = NoPath
      [] operation = "concurrent" ->
             procs = <<>>

PathInit ==
    /\ op = "safe_target_path"
    /\ Idle("npm_pack")
    /\ Idle("concurrent")
    /\ Idle("sanitize_package_data")
    /\ Idle("cmd_check")
    /\ pc = "call"
    /\ member_name \in MemberNames
    /\ dest \in Dests
    /\ target = NoTarget
    /\ readable = TRUE
    /\ archive = <<>>
    /\ idx = 0
    /\ fs = EmptyFs
    /\ Idle("verify_tgz")
    /\ Idle("update_vendor")

CallSafeTargetPath ==
    /\ op = "safe_target_path"
    /\ pc = "call"
    /\ target' = safe_target_path(member_name, dest)
    /\ pc' = "returned"
    /\ UNCHANGED <<packVars, procs, checkVars, sanitizeVars, op, member_name, dest, extractVars, verifyVars, updateVars>>

SpecPath == PathInit /\ [][CallSafeTargetPath]_vars

(***************************************************************************)
(* Specification of extract_tgz: one call on any archive, step by step.    *)
(***************************************************************************)
ExtractInit ==
    /\ op = "extract_tgz"
    /\ Idle("npm_pack")
    /\ Idle("concurrent")
    /\ Idle("sanitize_package_data")
    /\ Idle("cmd_check")
    /\ pc = "mkdir"
    /\ dest \in Dests
    /\ readable \in BOOLEAN
    /\ archive \in Archives
    /\ readable = FALSE => archive = <<>>
    /\ idx = 1
    /\ fs = EmptyFs
    /\ member_name = <<>>
    /\ target = NoTarget
    /\ Idle("verify_tgz")
    /\ Idle("update_vendor")

\* dest.mkdir(parents=True, exist_ok=True), then tarfile.open
ExtractOpen ==
    /\ op = "extract_tgz"
    /\ pc = "mkdir"
    /\ LET made == mkdir_parents(fs, dest)
       IN  /\ fs' = made.fs
           /\ pc' = IF made.raised \/ ~readable THEN "raised" ELSE "loop"
    /\ UNCHANGED <<packVars, procs, checkVars, sanitizeVars, op, dest, pathVars, readable, archive, idx, verifyVars, updateVars>>

\* one iteration of the loop over tf.getmembers()
ExtractMember ==
    /\ op = "extract_tgz"
    /\ pc = "loop"
    /\ idx <= Len(archive)
    /\ LET r == extract_tgz_member(fs, archive[idx], dest)
       IN  /\ fs' = r.fs
           /\ pc' = IF r.raised THEN "raised" ELSE "loop"
    /\ member_name' = archive[idx].name
    /\ target' = IF issym(archive[idx]) \/ islnk(archive[idx])
                 THEN NoTarget
                 ELSE safe_target_path(archive[idx].name, dest)
    /\ idx' = idx + 1
    /\ UNCHANGED <<packVars, procs, checkVars, sanitizeVars, op, dest, readable, archive, verifyVars, updateVars>>

\* the loop is exhausted: extract_tgz returns
ExtractReturn ==
    /\ op = "extract_tgz"
    /\ pc = "loop"
    /\ idx > Len(archive)
    /\ pc' = "done"
    /\ UNCHANGED <<packVars, procs, checkVars, sanitizeVars, op, dest, pathVars, extractVars, verifyVars, updateVars>>

SpecExtract == ExtractInit /\ [][ExtractOpen \/ ExtractMember \/ ExtractReturn]_vars

(***************************************************************************)
(* Specification of verify_tgz: one call on any file and descriptors.      *)
(***************************************************************************)
VerifyInit ==
    /\ op = "verify_tgz"
    /\ Idle("npm_pack")
    /\ Idle("concurrent")
    /\ Idle("sanitize_package_data")
    /\ Idle("cmd_check")
    /\ pc = "call"
    /\ content \in Contents
    /\ integrity \in Integrities
    /\ shasum \in Shasums
    /\ outcome = "none"
    /\ dest = <<>>
    /\ member_name = <<>>
    /\ target = NoTarget
    /\ readable = TRUE
    /\ archive = <<>>
    /\ idx = 0
    /\ fs = EmptyFs
    /\ Idle("update_vendor")

CallVerifyTgz ==
    /\ op = "verify_tgz"
    /\ pc = "call"
    /\ outcome' = verify_tgz(content, integrity, shasum)
    /\ pc' = "returned"
    /\ UNCHANGED <<packVars, procs, checkVars, sanitizeVars, op, dest, pathVars, extractVars, content, integrity, shasum, updateVars>>

SpecVerify == VerifyInit /\ [][CallVerifyTgz]_vars

(***************************************************************************)
(* Specification of sanitize_package_data: one call on any manifest, then  *)
(* a call on what it returned.                                             *)
(***************************************************************************)
SanitizeInit ==
    /\ op = "sanitize_package_data"
    /\ Idle("npm_pack")
    /\ Idle("concurrent")
    /\ pc = "call"
    /\ pkg_object \in Manifests
    /\ pkg_before = pkg_object
    /\ result = NoResult
    /\ result_again = NoResult
    /\ member_name = <<>>
    /\ dest = work_dir
    /\ target = NoTarget
    /\ readable = TRUE
    /\ archive = <<>>
    /\ idx = 0
    /\ fs = EmptyFs
    /\ Idle("verify_tgz")
    /\ Idle("update_vendor")
    /\ Idle("cmd_check")

CallSanitize ==
    /\ op = "sanitize_package_data"
    /\ pc = "call"
    /\ result' = sanitize_package_data(pkg_object)
    /\ pkg_object' = result'.arg
    /\ pc' = "returned"
    /\ UNCHANGED <<packVars, procs, checkVars, op, dest, pathVars, extractVars, verifyVars, updateVars,
                   pkg_before, result_again>>

CallSanitizeAgain ==
    /\ op = "sanitize_package_data"
    /\ pc = "returned"
    /\ result.raised = "no"
    /\ result_again' = sanitize_package_data(result.value)
    /\ pc' = "again"
    /\ UNCHANGED <<packVars, procs, checkVars, op, dest, pathVars, extractVars, verifyVars, updateVars,
                   pkg_object, pkg_before, result>>

SpecSanitize == SanitizeInit /\ [][CallSanitize \/ CallSanitizeAgain]_vars

(***************************************************************************)
(* Specification of update_vendor: one call, step by step.                 *)
(***************************************************************************)
UpdateInit ==
    /\ op = "update_vendor"
    /\ Idle("npm_pack")
    /\ Idle("concurrent")
    /\ Idle("sanitize_package_data")
    /\ Idle("cmd_check")
    /\ pc = "enter"
    /\ fs \in InitialFilesystems
    /\ fs0 = fs
    /\ dest = work_dir
    /\ metadata = NoMetadata
    /\ failed_at = "none"
    /\ todo = {}
    /\ errors = FALSE
    /\ sanitized = "none"
    /\ install_rc = "none"
    /\ work_tree = EmptyFs
    /\ member_name = <<>>
    /\ target = NoTarget
    /\ readable = TRUE
    /\ archive = <<>>
    /\ idx = 0
    /\ Idle("verify_tgz")

\* an exception leaves update_vendor at the given step: the `with` block
\* removes the temporary directory on the way out
Raise(step, f) ==
    /\ pc' = "raised"
    /\ failed_at' = step
    /\ fs' = RemoveTree(f, TmpDir)

\* with tempfile.TemporaryDirectory() as td (line 244)
UpdateEnter ==
    /\ op = "update_vendor"
    /\ pc = "enter"
    /\ fs' = mkdir_parents(fs, TmpDir).fs
    /\ pc' = "npm_view"
    /\ UNCHANGED <<packVars, procs, checkVars, sanitizeVars, op, dest, pathVars, readable, archive, idx, verifyVars,
                   metadata, failed_at, fs0, todo, errors, stepVars>>

\* metadata = npm_view(version) (line 246): the registry answers, or the
\* call raises (npm fails, json.loads rejects its output)
UpdateNpmView ==
    /\ op = "update_vendor"
    /\ pc = "npm_view"
    /\ \/ /\ Raise("npm_view", fs)
          /\ UNCHANGED metadata
       \/ /\ metadata' \in Metadatas
          /\ pc' = "npm_pack"
          /\ UNCHANGED <<fs, failed_at>>
    /\ UNCHANGED <<packVars, procs, checkVars, sanitizeVars, op, dest, pathVars, readable, archive, idx, verifyVars,
                   fs0, todo, errors, stepVars>>

\* tgz = npm_pack(version, tmp) (line 247): a tarball lands in the temporary
\* directory, or npm_pack raises
UpdateNpmPack ==
    /\ op = "update_vendor"
    /\ pc = "npm_pack"
    /\ \/ /\ Raise("npm_pack", fs)
          /\ UNCHANGED <<content, readable, archive>>
       \/ \E t \in Tarballs :
              /\ content' = t.content
              /\ readable' = t.readable
              /\ archive' = t.members
              /\ fs' = write_file(fs, TmpDir \o <<Name.tgz>>, Text(t.content)).fs
              /\ pc' = "verify_tgz"
              /\ UNCHANGED failed_at
    /\ UNCHANGED <<packVars, procs, checkVars, sanitizeVars, op, dest, pathVars, idx, integrity, shasum, outcome,
                   metadata, fs0, todo, errors, stepVars>>

\* verify_tgz(tgz, integrity=metadata["dist"]["integrity"],
\* shasum=metadata["dist"]["shasum"]) (lines 248-252): a subscript on a
\* missing key raises KeyError before verify_tgz is called
UpdateVerify ==
    /\ op = "update_vendor"
    /\ pc = "verify_tgz"
    /\ IF \/ ~metadata.has_dist
          \/ "integrity" \notin DOMAIN metadata.dist
          \/ "shasum" \notin DOMAIN metadata.dist
       THEN /\ Raise("metadata", fs)
            /\ UNCHANGED <<integrity, shasum, outcome>>
       ELSE /\ integrity' = metadata.dist.integrity
            /\ shasum' = metadata.dist.shasum
            /\ outcome' = verify_tgz(content, integrity', shasum')
            /\ IF outcome' = "ok"
               THEN pc' = "extract_tgz" /\ UNCHANGED <<fs, failed_at>>
               ELSE Raise("verify_tgz", fs)
    /\ UNCHANGED <<packVars, procs, checkVars, sanitizeVars, op, dest, pathVars, readable, archive, idx, content,
                   metadata, fs0, todo, errors, stepVars>>

\* extract_tgz into the vendored directory itself
UpdateExtractInPlace ==
    /\ op = "update_vendor"
    /\ pc = "extract_tgz"
    /\ LET r == extract_tgz(fs, readable, archive, VENDOR_DIR)
       IN  IF r.raised
           THEN Raise("extract_tgz", r.fs)
           ELSE fs' = r.fs /\ pc' = "sanitize" /\ UNCHANGED failed_at
    /\ UNCHANGED <<packVars, procs, checkVars, sanitizeVars, op, dest, pathVars, readable, archive, idx, verifyVars,
                   metadata, fs0, todo, errors, stepVars>>

\* extract_tgz(tgz, work_dir) (lines 255-256)
UpdateExtract ==
    /\ op = "update_vendor"
    /\ pc = "extract_tgz"
    /\ LET r == extract_tgz(fs, readable, archive, work_dir)
       IN  IF r.raised
           THEN Raise("extract_tgz", r.fs)
           ELSE fs' = r.fs /\ pc' = "sanitize" /\ UNCHANGED failed_at
    /\ UNCHANGED <<packVars, procs, checkVars, sanitizeVars, op, dest, pathVars, readable, archive, idx, verifyVars,
                   metadata, fs0, todo, errors, stepVars>>

\* the try block of lines 259-268 on filesystem f: whether it ran through,
\* and the filesystem afterwards.  read_text raises when the manifest is not
\* a file, json.loads when it is not JSON, sanitize_package_data as modelled;
\* write_text is the only statement that changes anything
sanitize_manifest(f) ==
    LET pkg_json_path == work_dir \o <<Name.package_json>>
        loaded == json_loads(f[pkg_json_path].data)
        pkg_data == sanitize_package_data(loaded.value)
    IN  IF ~Exists(f, pkg_json_path) \/ IsDir(f, pkg_json_path)
        THEN [ok |-> FALSE, fs |-> f]
        ELSE IF ~loaded.ok THEN [ok |-> FALSE, fs |-> f]
        ELSE IF pkg_data.raised # "no" THEN [ok |-> FALSE, fs |-> f]
        ELSE [ok |-> TRUE,
              fs |-> write_file(f, pkg_json_path,
                                json_dumps(pkg_data.value) \o <<Token.newline>>).fs]

\* lines 258-270 with an except clause that re-raises
UpdateSanitizeReraising ==
    /\ op = "update_vendor"
    /\ pc = "sanitize"
    /\ LET r == sanitize_manifest(fs)
       IN  IF r.ok
           THEN /\ fs' = r.fs
                /\ sanitized' = "ok"
                /\ pc' = "npm_install"
                /\ UNCHANGED failed_at
           ELSE /\ sanitized' = "failed"
                /\ Raise("sanitize", fs)
    /\ UNCHANGED <<packVars, procs, checkVars, sanitizeVars, op, dest, pathVars, readable, archive, idx, verifyVars,
                   metadata, fs0, todo, errors, install_rc, work_tree>>

\* lines 258-270: the manifest is rewritten sanitized; any exception of the
\* try block is logged and swallowed, and line 272 is next
UpdateSanitize ==
    /\ op = "update_vendor"
    /\ pc = "sanitize"
    /\ LET r == sanitize_manifest(fs)
       IN  /\ fs' = r.fs
           /\ sanitized' = IF r.ok THEN "ok" ELSE "failed"
    /\ pc' = "npm_install"
    /\ UNCHANGED <<packVars, procs, checkVars, sanitizeVars, op, dest, pathVars, readable, archive, idx, verifyVars,
                   metadata, failed_at, fs0, todo, errors, install_rc, work_tree>>

\* lines 272-278: npm install runs in work_dir.  The call asks for the exit
\* code (return_completed_process=False) and drops it: whether the process
\* exited with zero or not, line 280 is next, where the children of
\* VENDOR_DIR are listed if it exists.  Only an exception of the call itself
\* (the process cannot be started) leaves update_vendor
UpdateInstall ==
    /\ op = "update_vendor"
    /\ pc = "npm_install"
    /\ \/ /\ install_rc' = "raised"
          /\ Raise("npm_install", fs)
          /\ UNCHANGED todo
       \/ /\ \E rc \in {"zero", "nonzero"}, wrote \in BOOLEAN :
                 LET made == mkdir_parents(fs, work_dir \o <<Name.node_modules>>)
                     dep == work_dir \o <<Name.node_modules, Name.index_js>>
                 IN  /\ install_rc' = rc
                     /\ rc = "zero" => wrote
                     /\ fs' = IF wrote /\ ~made.raised
                               THEN write_file(made.fs, dep, Text("dependency")).fs
                               ELSE fs
          /\ todo' = Children(fs, VENDOR_DIR)
          /\ pc' = "clean"
          /\ UNCHANGED failed_at
    /\ UNCHANGED <<packVars, procs, checkVars, sanitizeVars, op, dest, pathVars, readable, archive, idx, verifyVars,
                   metadata, fs0, errors, sanitized, work_tree>>

\* the loop of lines 281-287 removing files only: a child that is a
\* directory is left in place
UpdateCleanFilesOnly ==
    /\ op = "update_vendor"
    /\ pc = "clean"
    /\ \E child \in todo :
           /\ todo' = todo \ {child}
           /\ \/ /\ child[Len(child)] = Name.gitkeep \/ IsDir(fs, child)
                 /\ UNCHANGED <<fs, pc, failed_at>>
              \/ /\ child[Len(child)] # Name.gitkeep /\ ~IsDir(fs, child)
                 /\ fs' = RemoveTree(fs, child)
                 /\ UNCHANGED <<pc, failed_at>>
              \/ /\ child[Len(child)] # Name.gitkeep
                 /\ Raise("clean", fs)
    /\ UNCHANGED <<packVars, procs, checkVars, sanitizeVars, op, dest, pathVars, readable, archive, idx, verifyVars,
                   metadata, fs0, errors, stepVars>>

\* one iteration of the loop of lines 281-287: .gitkeep is kept, any other
\* child is removed with all below it, unless the removal raises
UpdateClean ==
    /\ op = "update_vendor"
    /\ pc = "clean"
    /\ \E child \in todo :
           /\ todo' = todo \ {child}
           /\ \/ /\ child[Len(child)] = Name.gitkeep
                 /\ UNCHANGED <<fs, pc, failed_at>>
              \/ /\ child[Len(child)] # Name.gitkeep
                 /\ fs' = RemoveTree(fs, child)
                 /\ UNCHANGED <<pc, failed_at>>
              \/ /\ child[Len(child)] # Name.gitkeep
                 /\ Raise("clean", fs)
    /\ UNCHANGED <<packVars, procs, checkVars, sanitizeVars, op, dest, pathVars, readable, archive, idx, verifyVars,
                   metadata, fs0, errors, stepVars>>

\* line 288, and the start of shutil.copytree (line 289): the entries of
\* work_dir are listed
UpdateCleanDone ==
    /\ op = "update_vendor"
    /\ pc = "clean"
    /\ todo = {}
    /\ fs' = mkdir_parents(fs, VENDOR_DIR).fs
    /\ todo' = {SubSeq(p, Len(work_dir) + 1, Len(p)) : p \in Under(fs, work_dir)}
    /\ work_tree' = [rel \in todo' |-> fs[work_dir \o rel]]
    /\ pc' = "copy"
    /\ UNCHANGED <<packVars, procs, checkVars, sanitizeVars, op, dest, pathVars, readable, archive, idx, verifyVars,
                   metadata, failed_at, fs0, errors, sanitized, install_rc>>

\* shutil.copytree copies one entry of work_dir, parents first; an entry
\* that cannot be copied is recorded, what is below it is left out, and the
\* copy goes on
UpdateCopy ==
    /\ op = "update_vendor"
    /\ pc = "copy"
    /\ \E rel \in todo :
           /\ \A n \in 1..(Len(rel) - 1) : SubSeq(rel, 1, n) \notin todo
           /\ LET src == work_dir \o rel
                  dst == VENDOR_DIR \o rel
                  r == IF IsDir(fs, src)
                       THEN mkdir_parents(fs, dst)
                       ELSE write_file(fs, dst, fs[src].data)
              IN  \/ /\ ~r.raised
                     /\ fs' = r.fs
                     /\ todo' = todo \ {rel}
                     /\ UNCHANGED errors
                  \/ /\ errors' = TRUE
                     /\ todo' = {t \in todo : ~(Len(t) >= Len(rel)
                                                /\ SubSeq(t, 1, Len(rel)) = rel)}
                     /\ UNCHANGED fs
    /\ UNCHANGED <<packVars, procs, checkVars, sanitizeVars, op, pc, dest, pathVars, readable, archive, idx, verifyVars,
                   metadata, failed_at, fs0, stepVars>>

\* copytree is through: it raises shutil.Error if an entry failed, else
\* update_vendor returns; either way the temporary directory goes
UpdateCopyDone ==
    /\ op = "update_vendor"
    /\ pc = "copy"
    /\ todo = {}
    /\ IF errors
       THEN Raise("copy", fs)
       ELSE /\ pc' = "done"
            /\ fs' = RemoveTree(fs, TmpDir)
            /\ UNCHANGED failed_at
    /\ UNCHANGED <<packVars, procs, checkVars, sanitizeVars, op, dest, pathVars, readable, archive, idx, verifyVars,
                   metadata, fs0, todo, errors, stepVars>>

SpecUpdate ==
    /\ UpdateInit
    /\ [][\/ UpdateEnter
          \/ UpdateNpmView
          \/ UpdateNpmPack
          \/ UpdateVerify
          \/ UpdateExtract
          \/ UpdateSanitize
          \/ UpdateInstall
          \/ UpdateClean
          \/ UpdateCleanDone
          \/ UpdateCopy
          \/ UpdateCopyDone]_vars

(***************************************************************************)
(* Specification of the `check` command (vendor_cli.py:37-56, 95-97): one  *)
(* run of cmd_check under main.  update_vendor is taken by its outcome: it *)
(* raises, or it returns having replaced the vendored tree, whose manifest *)
(* then carries the version of the artifact or cannot be read.             *)
(***************************************************************************)
CheckInit ==
    /\ op = "cmd_check"
    /\ Idle("npm_pack")
    /\ Idle("concurrent")
    /\ pc = "read_vendored_version"
    /\ args \in [vendor : BOOLEAN, github_outputs : BOOLEAN]
    /\ vendored_version \in Versions \cup {None}
    /\ current = None
    /\ latest = None
    /\ version = None
    /\ vendor_calls = <<>>
    /\ updated = FALSE
    /\ written = <<>>
    /\ exit_code = -1
    /\ member_name = <<>>
    /\ dest = work_dir
    /\ target = NoTarget
    /\ readable = TRUE
    /\ archive = <<>>
    /\ idx = 0
    /\ fs = EmptyFs
    /\ Idle("verify_tgz")
    /\ Idle("update_vendor")
    /\ Idle("sanitize_package_data")

\* an exception leaves cmd_check and main: the interpreter prints the
\* traceback and exits with status 1
Uncaught ==
    /\ pc' = "exited"
    /\ exit_code' = 1

\* return 0 in cmd_check, then raise SystemExit(rc) in main (lines 96-97)
Return0 ==
    /\ pc' = "exited"
    /\ exit_code' = 0

\* write_github_outputs(...) when args.github_outputs is set (lines 30-31,
\* 49-50, 53-54): the call is recorded by its keyword arguments, new_version
\* being None when the keyword is not given
Outputs(flag, new_version) ==
    IF args.github_outputs
    THEN Append(written, [updated |-> flag, new_version |-> new_version])
    ELSE written

\* current = read_vendored() (line 44)
CheckReadCurrent ==
    /\ op = "cmd_check"
    /\ pc = "read_vendored_version"
    /\ IF vendored_version = None
       THEN Uncaught /\ UNCHANGED current
       ELSE current' = vendored_version /\ pc' = "resolve_latest_version" /\ UNCHANGED exit_code
    /\ UNCHANGED <<packVars, procs, op, dest, pathVars, extractVars, verifyVars,
                   updateVars, sanitizeVars,
                   args, vendored_version, latest, version, vendor_calls, updated,
                   written>>

\* latest = resolve_latest_version() (line 45): str(meta.get("version", "")),
\* the empty string when the registry names no version; npm_view may raise
CheckResolveLatest ==
    /\ op = "cmd_check"
    /\ pc = "resolve_latest_version"
    /\ \/ Uncaught /\ UNCHANGED latest
       \/ /\ latest' \in Versions \cup {<<>>}
          /\ pc' = "compare"
          /\ UNCHANGED exit_code
    /\ UNCHANGED <<packVars, procs, op, dest, pathVars, extractVars, verifyVars,
                   updateVars, sanitizeVars,
                   args, vendored_version, current, version, vendor_calls, updated,
                   written>>

\* lines 46-56 without the call of update_vendor: the branch is chosen, and
\* the function returns 0 unless it has to vendor first
CheckCompare ==
    /\ op = "cmd_check"
    /\ pc = "compare"
    /\ IF latest # <<>> /\ latest # current
       THEN IF args.vendor
            THEN pc' = "update_vendor" /\ UNCHANGED <<written, exit_code>>
            ELSE written' = Outputs("true", latest) /\ Return0
       ELSE written' = Outputs("false", None) /\ Return0
    /\ UNCHANGED <<packVars, procs, op, dest, pathVars, extractVars, verifyVars,
                   updateVars, sanitizeVars,
                   args, vendored_version, current, latest, version, vendor_calls,
                   updated>>

\* update_vendor(latest) (line 48), then lines 49-52: nothing is read back
CheckUpdateVendor ==
    /\ op = "cmd_check"
    /\ pc = "update_vendor"
    /\ vendor_calls' = Append(vendor_calls, latest)
    /\ \/ /\ Uncaught
          /\ vendored_version' \in {vendored_version, None}
          /\ UNCHANGED <<updated, written>>
       \/ /\ vendored_version' \in Versions \cup {None}
          /\ updated' = TRUE
          /\ written' = Outputs("true", latest)
          /\ Return0
    /\ UNCHANGED <<packVars, procs, op, dest, pathVars, extractVars, verifyVars,
                   updateVars, sanitizeVars,
                   args, current, latest, version>>

SpecCheck ==
    /\ CheckInit
    /\ [][\/ CheckReadCurrent
          \/ CheckResolveLatest
          \/ CheckCompare
          \/ CheckUpdateVendor]_vars

(***************************************************************************)
(* Specification of the `update` command (vendor_cli.py:20-34, 95-97): one *)
(* run of cmd_update under main, update_vendor taken by its outcome as in  *)
(* the `check` command.                                                    *)
(***************************************************************************)
\* the literal "latest" of lines 26-27
Latest == <<"l", "a", "t", "e", "s", "t">>

\* the positional `version` is optional (nargs="?"): None when omitted
CmdUpdateInit ==
    /\ op = "cmd_update"
    /\ Idle("npm_pack")
    /\ Idle("concurrent")
    /\ pc = "resolve_latest_version"
    /\ args \in [version : Versions \cup {None, <<>>, Latest}, github_outputs : BOOLEAN]
    /\ vendored_version \in Versions \cup {None}
    /\ current = None
    /\ latest = None
    /\ version = None
    /\ vendor_calls = <<>>
    /\ updated = FALSE
    /\ written = <<>>
    /\ exit_code = -1
    /\ member_name = <<>>
    /\ dest = work_dir
    /\ target = NoTarget
    /\ readable = TRUE
    /\ archive = <<>>
    /\ idx = 0
    /\ fs = EmptyFs
    /\ Idle("verify_tgz")
    /\ Idle("update_vendor")
    /\ Idle("sanitize_package_data")

\* version = args.version or "latest"; if version == "latest": version =
\* resolve_latest_version() (lines 26-28), which returns
\* str(meta.get("version", "")) or lets the exception of npm_view pass
CmdUpdateVersion ==
    /\ op = "cmd_update"
    /\ pc = "resolve_latest_version"
    /\ LET given == IF args.version \in {None, <<>>} THEN Latest ELSE args.version
       IN  IF given = Latest
           THEN \/ Uncaught /\ UNCHANGED version
                \/ /\ version' \in Versions \cup {<<>>}
                   /\ pc' = "update_vendor"
                   /\ UNCHANGED exit_code
           ELSE /\ version' = given
                /\ pc' = "update_vendor"
                /\ UNCHANGED exit_code
    /\ UNCHANGED <<packVars, procs, op, dest, pathVars, extractVars, verifyVars,
                   updateVars, sanitizeVars,
                   args, vendored_version, current, latest, vendor_calls, updated,
                   written>>

\* update_vendor(version=version), then lines 30-33
CmdUpdateVendor ==
    /\ op = "cmd_update"
    /\ pc = "update_vendor"
    /\ vendor_calls' = Append(vendor_calls, version)
    /\ \/ /\ Uncaught
          /\ vendored_version' \in {vendored_version, None}
          /\ UNCHANGED <<updated, written>>
       \/ /\ vendored_version' \in Versions \cup {None}
          /\ updated' = TRUE
          /\ written' = Outputs("true", version)
          /\ Return0
    /\ UNCHANGED <<packVars, procs, op, dest, pathVars, extractVars, verifyVars,
                   updateVars, sanitizeVars,
                   args, current, latest, version>>

\* the two commands of the `vendor` program
SpecCommands ==
    /\ CheckInit \/ CmdUpdateInit
    /\ [][\/ CheckReadCurrent
          \/ CheckResolveLatest
          \/ CheckCompare
          \/ CheckUpdateVendor
          \/ CmdUpdateVersion
          \/ CmdUpdateVendor]_vars

(***************************************************************************)
(* npm_pack (vendor_update.py:80-111).  out_dir is `dest`; the tool is     *)
(* taken by what it leaves: a completed process and files in out_dir.      *)
(***************************************************************************)
\* str.endswith
endswith(s, suffix) ==
    /\ Len(s) >= Len(suffix)
    /\ SubSeq(s, Len(s) - Len(suffix) + 1, Len(s)) = suffix

\* decode_maybe_bytes (lines 66-77): "" for None, and bytes decoded with
\* errors="replace", a byte that is no text becoming U+FFFD
decode_maybe_bytes(value) ==
    IF value = None THEN <<>>
    ELSE [i \in 1..Len(value) |-> IF value[i] = "\\xff" THEN "\\ufffd" ELSE value[i]]

\* out_dir.glob("vercel-*.tgz"): the entries directly in out_dir whose name
\* starts with "vercel-" and ends with ".tgz", the two not overlapping
glob(f, out_dir) ==
    {p \in Children(f, out_dir) :
        LET name == p[Len(p)]
        IN  /\ startswith(name, <<"v", "e", "r", "c", "e", "l", "-">>)
            /\ endswith(name, <<".", "t", "g", "z">>)
            /\ Len(name) >= 11}

\* lines 97-111 with the glob consulted before the reported name
npm_pack_glob_first(process, f, out_dir) ==
    LET filename == strip(decode_maybe_bytes(process.stdout))
        candidate == out_dir \o <<filename>>
        tgzs == glob(f, out_dir)
    IN  IF process.returncode # 0
        THEN {[raised |-> "pack failed",
               text |-> strip(decode_maybe_bytes(process.stderr)), path |-> <<>>]}
        ELSE IF tgzs # {}
        THEN {[raised |-> "no", text |-> <<>>, path |-> t] : t \in tgzs}
        ELSE IF filename # <<>> /\ Exists(f, candidate)
        THEN {[raised |-> "no", text |-> <<>>, path |-> candidate]}
        ELSE {[raised |-> "did not produce a tarball", text |-> <<>>, path |-> <<>>]}

\* lines 97-111: the outcomes of npm_pack once the tool has completed, one
\* for each entry list(out_dir.glob(...)) may put first
npm_pack(process, f, out_dir) ==
    LET filename == strip(decode_maybe_bytes(process.stdout))
        candidate == out_dir \o <<filename>>
        tgzs == glob(f, out_dir)
    IN  IF process.returncode # 0
        THEN {[raised |-> "pack failed",
               text |-> strip(decode_maybe_bytes(process.stderr)), path |-> <<>>]}
        ELSE IF filename # <<>> /\ Exists(f, candidate)
        THEN {[raised |-> "no", text |-> <<>>, path |-> candidate]}
        ELSE IF tgzs = {}
        THEN {[raised |-> "did not produce a tarball", text |-> <<>>, path |-> <<>>]}
        ELSE {[raised |-> "no", text |-> <<>>, path |-> t] : t \in tgzs}

\* names the tool may leave in out_dir or report: two that match the
\* pattern, and "vercel.tgz", which does not
PackNames ==
    {<<"v", "e", "r", "c", "e", "l", "-", "1", ".", "t", "g", "z">>,
     <<"v", "e", "r", "c", "e", "l", "-", ".", "t", "g", "z">>,
     Name.tgz}

PackInit ==
    /\ op = "npm_pack"
    /\ pc = "call"
    /\ completed = [returncode |-> 0, stdout |-> None, stderr |-> None]
    /\ pack_result = NoPath
    /\ Idle("concurrent")
    /\ Idle("sanitize_package_data")
    /\ Idle("cmd_check")
    /\ Idle("verify_tgz")
    /\ Idle("update_vendor")
    /\ member_name = <<>>
    /\ dest = TmpDir
    /\ target = NoTarget
    /\ readable = TRUE
    /\ archive = <<>>
    /\ idx = 0
    /\ fs \in {EmptyFs, TmpDir :> DirEntry}

\* lines 90-96: out_dir is made, then the tool runs in it and completes,
\* having written any of the names.  It may print nothing, blanks, a name, a
\* name with blanks and a final newline, a name of no file, bytes that are
\* no text
PackRun ==
    /\ op = "npm_pack"
    /\ pc = "call"
    /\ completed' \in [returncode : {0, 1},
                       stdout : {None, <<>>, <<" ", "\n">>, <<"x">>, <<"\\xff">>}
                                \cup PackNames
                                \cup {<<" ">> \o n \o <<"\n">> : n \in PackNames},
                       stderr : {None, <<"E", "4", "0", "4", "\n">>}]
    /\ \E names \in SUBSET PackNames :
           fs' = [q \in DOMAIN mkdir_parents(fs, dest).fs \cup {dest \o <<n>> : n \in names} |->
                     IF q = dest THEN DirEntry ELSE FileEntry(Text("tgz"))]
    /\ pc' = "completed"
    /\ UNCHANGED <<procs, checkVars, sanitizeVars, op, dest, pathVars, readable, archive, idx,
                   verifyVars, updateVars, pack_result>>

\* lines 97-111
PackReturn ==
    /\ op = "npm_pack"
    /\ pc = "completed"
    /\ pack_result' \in npm_pack(completed, fs, dest)
    /\ pc' = "returned"
    /\ UNCHANGED <<procs, checkVars, sanitizeVars, op, dest, pathVars, extractVars,
                   verifyVars, updateVars, completed>>

SpecPack == PackInit /\ [][PackRun \/ PackReturn]_vars

(***************************************************************************)
(* Two invocations of update_vendor running at once on VENDOR_DIR          *)
(* (vendor_update.py:244, 280-289).  Each has its own temporary directory  *)
(* and has brought its working tree there; the steps of lines 280-289 of   *)
(* the two interleave.  `rank` and `alone` record the order in which the   *)
(* invocations reached line 280 and whether the other was then between     *)
(* lines 280 and 289.                                                      *)
(***************************************************************************)
Procs == {1, 2}

\* the temporary directory of invocation i, and its work_dir
TmpDirOf(i) == <<<<"t", "m", "p", IF i = 1 THEN "1" ELSE "2">>>>

\* the working tree of invocation i, by path relative to work_dir: the two
\* versions share the manifest's name and have one file each of their own
NewTree(i) ==
    IF i = 1
    THEN <<Name.package_json>> :> FileEntry(Text("manifest 1"))
         @@ <<Name.index_js>> :> FileEntry(Text("js 1"))
    ELSE <<Name.package_json>> :> FileEntry(Text("manifest 2"))
         @@ <<Name.node_modules>> :> DirEntry
         @@ <<Name.node_modules, Name.index_js>> :> FileEntry(Text("js 2"))

ConcurrentInit ==
    /\ op = "concurrent"
    /\ pc = "running"
    /\ Idle("npm_pack")
    /\ Idle("sanitize_package_data")
    /\ Idle("cmd_check")
    /\ Idle("verify_tgz")
    /\ procs = [i \in Procs |->
                   [pc |-> "exists", todo |-> {}, errors |-> FALSE, rank |-> 0,
                    alone |-> FALSE]]
    /\ \E old \in InitialFilesystems :
           fs = [q \in DOMAIN old
                       \cup UNION {{TmpDirOf(i), TmpDirOf(i) \o <<work_dir[2]>>}
                                   \cup {TmpDirOf(i) \o <<work_dir[2]>> \o rel :
                                            rel \in DOMAIN NewTree(i)} : i \in Procs} |->
                    IF q \in DOMAIN old THEN old[q]
                    ELSE IF Len(q) <= 2 THEN DirEntry
                    ELSE NewTree(IF q[1] = TmpDirOf(1)[1] THEN 1 ELSE 2)[SubSeq(q, 3, Len(q))]]
    /\ fs0 = fs
    /\ metadata = NoMetadata
    /\ failed_at = "none"
    /\ todo = {}
    /\ errors = FALSE
    /\ sanitized = "none"
    /\ install_rc = "none"
    /\ work_tree = EmptyFs
    /\ member_name = <<>>
    /\ dest = VENDOR_DIR
    /\ target = NoTarget
    /\ readable = TRUE
    /\ archive = <<>>
    /\ idx = 0

\* an exception leaves invocation i: its temporary directory goes
ProcRaise(i) ==
    /\ procs' = [procs EXCEPT ![i].pc = "raised", ![i].todo = {}]
    /\ fs' = RemoveTree(fs, TmpDirOf(i))

\* lines 280-281: if VENDOR_DIR.exists(), iterdir() lists its children
ProcList(i) ==
    /\ op = "concurrent"
    /\ procs[i].pc = "exists"
    /\ procs' = [procs EXCEPT
                    ![i].pc = "clean",
                    ![i].todo = Children(fs, VENDOR_DIR),
                    ![i].rank = 1 + Cardinality({j \in Procs : procs[j].rank > 0}),
                    ![i].alone = \A j \in Procs \ {i} :
                                    procs[j].pc \in {"exists", "done", "raised"}]
    /\ UNCHANGED <<packVars, checkVars, sanitizeVars, op, pc, dest, pathVars, extractVars,
                   verifyVars, updateVars>>

\* lines 282-287 removing files only: a child that is a directory is left
ProcCleanFilesOnly(i) ==
    /\ op = "concurrent"
    /\ procs[i].pc = "clean"
    /\ \E child \in procs[i].todo :
           \/ /\ child[Len(child)] = Name.gitkeep \/ IsDir(fs, child)
              /\ procs' = [procs EXCEPT ![i].todo = @ \ {child}]
              /\ UNCHANGED fs
           \/ /\ child[Len(child)] # Name.gitkeep
              /\ Exists(fs, child) /\ ~IsDir(fs, child)
              /\ procs' = [procs EXCEPT ![i].todo = @ \ {child}]
              /\ fs' = RemoveTree(fs, child)
           \/ /\ child[Len(child)] # Name.gitkeep
              /\ ~IsDir(fs, child)
              /\ ProcRaise(i)
    /\ UNCHANGED <<packVars, checkVars, sanitizeVars, op, pc, dest, pathVars, readable,
                   archive, idx, verifyVars, updateVars>>

\* one iteration of the loop of lines 281-287: .gitkeep is kept; any other
\* listed child is removed with all below it, unless the removal raises, as
\* child.unlink() does for a child that is no longer there
ProcClean(i) ==
    /\ op = "concurrent"
    /\ procs[i].pc = "clean"
    /\ \E child \in procs[i].todo :
           \/ /\ child[Len(child)] = Name.gitkeep
              /\ procs' = [procs EXCEPT ![i].todo = @ \ {child}]
              /\ UNCHANGED fs
           \/ /\ child[Len(child)] # Name.gitkeep
              /\ Exists(fs, child)
              /\ procs' = [procs EXCEPT ![i].todo = @ \ {child}]
              /\ fs' = RemoveTree(fs, child)
           \/ /\ child[Len(child)] # Name.gitkeep
              /\ ProcRaise(i)
    /\ UNCHANGED <<packVars, checkVars, sanitizeVars, op, pc, dest, pathVars, readable,
                   archive, idx, verifyVars, updateVars>>

\* line 288, and the start of shutil.copytree (line 289): the entries of
\* the invocation's work_dir are listed
ProcCleanDone(i) ==
    /\ op = "concurrent"
    /\ procs[i].pc = "clean"
    /\ procs[i].todo = {}
    /\ fs' = mkdir_parents(fs, VENDOR_DIR).fs
    /\ procs' = [procs EXCEPT ![i].pc = "copy", ![i].todo = DOMAIN NewTree(i)]
    /\ UNCHANGED <<packVars, checkVars, sanitizeVars, op, pc, dest, pathVars, readable,
                   archive, idx, verifyVars, updateVars>>

\* shutil.copytree copies one entry, parents first: a directory is made if
\* it is not there, a file is written over what is there; an entry that
\* cannot be copied, as a file whose directory is gone, is recorded, what is
\* below it is left out, and the copy goes on
ProcCopy(i) ==
    /\ op = "concurrent"
    /\ procs[i].pc = "copy"
    /\ \E rel \in procs[i].todo :
           /\ \A n \in 1..(Len(rel) - 1) : SubSeq(rel, 1, n) \notin procs[i].todo
           /\ LET dst == VENDOR_DIR \o rel
                  r == IF NewTree(i)[rel].kind = "dir" THEN mkdir_parents(fs, dst)
                       ELSE IF ~IsDir(fs, parent(dst)) THEN Raised(fs)
                       ELSE write_file(fs, dst, NewTree(i)[rel].data)
              IN  \/ /\ ~r.raised
                     /\ fs' = r.fs
                     /\ procs' = [procs EXCEPT ![i].todo = @ \ {rel}]
                  \/ /\ procs' = [procs EXCEPT
                                    ![i].errors = TRUE,
                                    ![i].todo = {t \in @ : ~(Len(t) >= Len(rel)
                                                   /\ SubSeq(t, 1, Len(rel)) = rel)}]
                     /\ UNCHANGED fs
    /\ UNCHANGED <<packVars, checkVars, sanitizeVars, op, pc, dest, pathVars, readable,
                   archive, idx, verifyVars, updateVars>>

\* copytree is through: it raises shutil.Error if an entry failed, else
\* update_vendor returns; either way the temporary directory goes
ProcCopyDone(i) ==
    /\ op = "concurrent"
    /\ procs[i].pc = "copy"
    /\ procs[i].todo = {}
    /\ IF procs[i].errors
       THEN ProcRaise(i)
       ELSE /\ procs' = [procs EXCEPT ![i].pc = "done"]
            /\ fs' = RemoveTree(fs, TmpDirOf(i))
    /\ UNCHANGED <<packVars, checkVars, sanitizeVars, op, pc, dest, pathVars, readable,
                   archive, idx, verifyVars, updateVars>>

SpecConcurrent ==
    /\ ConcurrentInit
    /\ [][\E i \in Procs : \/ ProcList(i)
                            \/ ProcClean(i)
                            \/ ProcCleanDone(i)
                            \/ ProcCopy(i)
                            \/ ProcCopyDone(i)]_vars

\* safe_target_path and extract_tgz together
SpecPathExtract ==
    (PathInit \/ ExtractInit) /\ [][CallSafeTargetPath \/ ExtractOpen \/ ExtractMember \/ ExtractReturn]_vars

(***************************************************************************)
(* Properties of the archive safety layer.                                 *)
(***************************************************************************)
\* the relative path of a member name: what follows the root prefix
RelOf(name) == SubSeq(name, Len(PackagePrefix) + 1, Len(name))

\* the name has, after the prefix, a segment "." or "..", or one with leading
\* or trailing whitespace
HasUnsafeSegment(name) ==
    /\ startswith(name, PackagePrefix)
    /\ LET segs == split(RelOf(name), "/")
       IN  \E i \in 1..Len(segs) : segs[i] \in {Dot, DotDot} \/ strip(segs[i]) # segs[i]

\* path p lies strictly inside directory d
StrictlyInside(p, d) ==
    /\ Len(p) > Len(d)
    /\ SubSeq(p, 1, Len(d)) = d
    /\ \A i \in (Len(d) + 1)..Len(p) : p[i] \notin {Dot, DotDot}

Returned == op = "safe_target_path" /\ pc = "returned"

Finished == op = "extract_tgz" /\ pc \in {"done", "raised"}

\* C1: safe_target_path rejects every member name that has, after the
\* prefix, a segment "." or "..", or a segment with leading or trailing
\* whitespace, at any depth.
C1_UnsafeSegmentRejected ==
    (Returned /\ HasUnsafeSegment(member_name)) => ~target.accepted

\* C2: safe_target_path rejects every member name that does not start with
\* "package/", and the iteration of extract_tgz on such a member neither
\* changes the filesystem nor raises.
C2_NonPrefixedRejected ==
    /\ []((Returned /\ ~startswith(member_name, PackagePrefix)) => target = Reject)
    /\ [][(/\ op = "extract_tgz"
           /\ pc = "loop"
           /\ idx <= Len(archive)
           /\ ~startswith(archive[idx].name, PackagePrefix))
          => (fs' = fs /\ pc' = "loop" /\ ~target'.accepted)]_vars

\* a non-prefixed name was passed to safe_target_path, and the loop of
\* extract_tgz went past a regular member with a non-prefixed name
C2_Witness ==
    \/ /\ Returned
       /\ member_name = <<"p", "a", "c", "k", "a", "g", "e">>
    \/ /\ op = "extract_tgz"
       /\ pc = "done"
       /\ \E i \in 1..Len(archive) :
              /\ isreg(archive[i])
              /\ ~startswith(archive[i].name, PackagePrefix)
       /\ \E p \in DOMAIN fs : fs[p].kind = "file"

\* C3: a path safe_target_path accepts lies strictly inside the destination
\* root, and every path extract_tgz creates lies strictly inside the
\* destination (the destination itself and its ancestors, which
\* extract_tgz makes first, aside).
C3_AcceptedStrictlyInside ==
    /\ (Returned /\ target.accepted) => StrictlyInside(target.path, dest)
    /\ op = "extract_tgz" =>
           \A p \in DOMAIN fs : p \in Prefixes(dest) \/ StrictlyInside(p, dest)

\* the archive without its link members
WithoutLinks(members) ==
    SelectSeq(members, LAMBDA m : ~(issym(m) \/ islnk(m)))

\* C4: extract_tgz never leaves a symbolic or hard link in the filesystem,
\* and ends as it ends on the same archive without its link members.
C4_NoLinkExtracted ==
    /\ op = "extract_tgz" => \A p \in DOMAIN fs : fs[p].kind \in {"dir", "file"}
    /\ Finished =>
           LET r == extract_tgz(EmptyFs, readable, WithoutLinks(archive), dest)
           IN  fs = r.fs /\ (pc = "raised") = r.raised

\* extract_tgz returned on an archive with a link member of acceptable name
\* and a regular member, and the regular member's file is there
C4_Witness ==
    /\ op = "extract_tgz"
    /\ pc = "done"
    /\ \E i, j \in 1..Len(archive) :
           /\ issym(archive[i]) \/ islnk(archive[i])
           /\ safe_target_path(archive[i].name, dest).accepted
           /\ isreg(archive[j])
           /\ safe_target_path(archive[j].name, dest).accepted
           /\ Exists(fs, safe_target_path(archive[j].name, dest).path)
           /\ ~Exists(fs, safe_target_path(archive[i].name, dest).path)

\* the archive without the members whose name safe_target_path rejects
WithoutRejected(members, d) ==
    SelectSeq(members, LAMBDA m : safe_target_path(m.name, d).accepted)

\* C5: extract_tgz ends, in filesystem and in raising or not, as it ends on
\* the same archive with the rejected members removed.
C5_RejectedSkippedSilently ==
    Finished =>
        LET r == extract_tgz(EmptyFs, readable, WithoutRejected(archive, dest), dest)
        IN  fs = r.fs /\ (pc = "raised") = r.raised

\* extract_tgz returned on an archive whose first member is a rejected
\* regular file and whose later member was extracted
C5_Witness ==
    /\ op = "extract_tgz"
    /\ pc = "done"
    /\ Len(archive) >= 2
    /\ isreg(archive[1])
    /\ ~safe_target_path(archive[1].name, dest).accepted
    /\ isreg(archive[2])
    /\ safe_target_path(archive[2].name, dest).accepted
    /\ Exists(fs, safe_target_path(archive[2].name, dest).path)

(***************************************************************************)
(* Properties of the integrity verifier.                                   *)
(***************************************************************************)
Verified == op = "verify_tgz" /\ pc = "returned"

HasSeparator(integ) == \E i \in 1..Len(integ) : integ[i] = "-"

\* the algorithm named by an integrity string, case-normalised
AlgoOf(integ) == lower(split_once(integ, "-")[1])

\* the digest part of an integrity string
DigestPartOf(integ) == split_once(integ, "-")[2]

\* the descriptor names a digest primitive hashlib supports
SupportedAlgo(integ) == HasSeparator(integ) /\ hashlib_attr(AlgoOf(integ)) = "digest"

\* the digest of the content under the descriptor's algorithm is, byte for
\* byte, the digest the descriptor's digest part decodes to
DigestMatches(integ, data) ==
    /\ b64decode(DigestPartOf(integ)).ok
    /\ b64decode(DigestPartOf(integ)).bytes = digest(AlgoOf(integ), data)

\* C6: with a non-empty integrity descriptor of a supported algorithm,
\* verify_tgz returns normally exactly when the content's digest equals the
\* decoded expected digest and raises RuntimeError otherwise, whatever the
\* shasum argument is.  (The digest part is decoded as b64decode decodes
\* it.)
C6_IntegrityDecides ==
    (Verified /\ Truthy(integrity) /\ SupportedAlgo(integrity)) =>
        /\ outcome = IF DigestMatches(integrity, content) THEN "ok" ELSE "RuntimeError"
        /\ \A other \in Shasums : verify_tgz(content, integrity, other) = outcome

\* verify_tgz returned normally on a matching descriptor although the
\* shasum is that of another content, and upper-case algorithm names occur
C6_Witness ==
    /\ Verified
    /\ integrity = upper(Sha512) \o <<"-", "r", "A", "A", "A">>
    /\ content = "tgz0"
    /\ shasum = hexdigest(Sha1, "tgz1")
    /\ outcome = "ok"

\* C7, as claimed: with integrity absent and shasum present, verify_tgz
\* returns normally exactly when the hex SHA-1 digest equals shasum without
\* regard to case, and raises RuntimeError otherwise.
C7_ShasumCaseInsensitive ==
    (Verified /\ ~Truthy(integrity) /\ Truthy(shasum)) =>
        outcome = IF lower(hexdigest(Sha1, content)) = lower(shasum)
                  THEN "ok" ELSE "RuntimeError"

\* C7, amended: with integrity absent (None or empty) and shasum present
\* (non-empty), verify_tgz returns normally exactly when the hex SHA-1
\* digest, which is lower-case, equals shasum character for character, and
\* raises RuntimeError otherwise.
C7_ShasumExact ==
    (Verified /\ ~Truthy(integrity) /\ Truthy(shasum)) =>
        outcome = IF hexdigest(Sha1, content) = shasum THEN "ok" ELSE "RuntimeError"

\* verify_tgz refused the upper-case rendering of the correct checksum
C7_Witness ==
    /\ Verified
    /\ integrity = None
    /\ shasum = upper(hexdigest(Sha1, content))
    /\ shasum # hexdigest(Sha1, content)
    /\ outcome = "RuntimeError"

\* the digest part is base64 text: alphabet characters in quads, with at
\* most two pad characters, at the end only
ValidBase64(b) ==
    /\ Len(b) % 4 = 0
    /\ \A i \in 1..Len(b) :
           \/ IndexIn(Base64Alphabet, b[i]) # 0
           \/ b[i] = "=" /\ i > Len(b) - 2 /\ \A j \in i..Len(b) : b[j] = "="

IllFormed(integ) == ~HasSeparator(integ) \/ ~ValidBase64(DigestPartOf(integ))

\* C8: on a non-empty integrity string that is ill-formed or names no
\* supported digest primitive, verify_tgz raises RuntimeError: no other
\* exception, and no normal return.
C8_BadDescriptorIsIntegrityError ==
    (Verified /\ Truthy(integrity)
        /\ (IllFormed(integrity) \/ ~SupportedAlgo(integrity)))
    => outcome = "RuntimeError"

(***************************************************************************)
(* Properties of update_vendor.                                            *)
(***************************************************************************)
\* the metadata has a "dist" that carries neither an integrity nor a shasum:
\* each key is missing or null
CarriesNeither(m) ==
    /\ m.has_dist
    /\ \A k \in {"integrity", "shasum"} : k \notin DOMAIN m.dist \/ m.dist[k] = None

\* C9: when the registry metadata carries neither dist.integrity nor
\* dist.shasum, the verification step of update_vendor raises nothing.
C9_NoDigestVerifyIsNoop ==
    (op = "update_vendor" /\ CarriesNeither(metadata))
    => failed_at \notin {"metadata", "verify_tgz"}

\* the vendored directory is as it was when update_vendor was called
VendorUntouched == Tree(fs, VENDOR_DIR) = Tree(fs0, VENDOR_DIR)

\* C10: an exception in npm_view, npm_pack, verify_tgz (the evaluation of
\* its arguments included) or extract_tgz ends update_vendor, with the
\* vendored directory exactly as it was before the call; so it is at every
\* step before the replacement.
C10_FailureBeforeReplacementLeavesVendor ==
    op = "update_vendor" =>
        /\ failed_at # "none" => pc = "raised"
        /\ (\/ pc \in {"enter", "npm_view", "npm_pack", "verify_tgz",
                       "extract_tgz", "sanitize", "npm_install"}
            \/ failed_at \in {"npm_view", "npm_pack", "metadata",
                              "verify_tgz", "extract_tgz"})
           => VendorUntouched

\* extract_tgz raised part-way through an archive while the vendored
\* directory held an old file, and update_vendor ended there
C10_Witness ==
    /\ op = "update_vendor"
    /\ pc = "raised"
    /\ failed_at = "extract_tgz"
    /\ archive # <<>>
    /\ Exists(fs0, VENDOR_DIR \o <<Name.old_file>>)
    /\ Exists(fs, VENDOR_DIR \o <<Name.old_file>>)

\* C11: when the npm install of step 6 fails, update_vendor ends there with
\* an exception: the vendored directory is never cleaned or copied into
\* afterwards, and stays as it was before the call.
C11_InstallFailureAborts ==
    (op = "update_vendor" /\ install_rc \in {"nonzero", "raised"})
    => /\ pc = "raised"
       /\ failed_at = "npm_install"
       /\ VendorUntouched

\* the entries below VENDOR_DIR in f, by their path relative to it
VendorRel(f) ==
    [rel \in {SubSeq(p, Len(VENDOR_DIR) + 1, Len(p)) : p \in Under(f, VENDOR_DIR)} |->
        f[VENDOR_DIR \o rel]]

\* the keep-marker as it was before the call, if it was there
KeptMarker ==
    [rel \in {r \in DOMAIN VendorRel(fs0) : r[1] = Name.gitkeep} |-> VendorRel(fs0)[rel]]

\* copytree has started, so the working tree it copies is known
CopyStarted == pc \in {"copy", "done"} \/ failed_at = "copy"

\* the vendored directory holds the complete new tree: the working tree, and
\* the keep-marker if it was there
VendorIsNew ==
    /\ CopyStarted
    /\ Exists(fs, VENDOR_DIR)
    /\ VendorRel(fs) = work_tree @@ KeptMarker

Terminated == op = "update_vendor" /\ pc \in {"done", "raised"}

\* C12: whenever update_vendor has terminated, normally or by an exception
\* raised anywhere, the vendored directory holds the complete previous tree
\* or the complete new tree.
C12_ReplacementAtomic ==
    Terminated => (VendorUntouched \/ VendorIsNew)

\* C13: after update_vendor has returned from a call in which the vendored
\* directory already held entries, the directory holds exactly the working
\* tree, and the keep-marker .gitkeep if it was there before: nothing else
\* of the previous tree is left, and every entry of the new tree is there.
C13_SuccessReplacesExactly ==
    (op = "update_vendor" /\ pc = "done" /\ Children(fs0, VENDOR_DIR) # {})
    => /\ VendorRel(fs) = work_tree @@ KeptMarker
       /\ \A rel \in DOMAIN VendorRel(fs0) \ DOMAIN work_tree :
              rel \in DOMAIN VendorRel(fs) <=> rel[1] = Name.gitkeep

\* an update returned after replacing a tree with a keep-marker, an old
\* directory with a file in it and an old file
C13_Witness ==
    /\ op = "update_vendor"
    /\ pc = "done"
    /\ {<<Name.gitkeep>>, <<Name.old_dir, Name.index_js>>, <<Name.old_file>>}
       \subseteq DOMAIN VendorRel(fs0)
    /\ <<Name.gitkeep>> \in DOMAIN VendorRel(fs)
    /\ <<Name.old_dir>> \notin DOMAIN VendorRel(fs)
    /\ <<Name.index_js>> \in DOMAIN VendorRel(fs)
    /\ <<Name.node_modules, Name.index_js>> \in DOMAIN VendorRel(fs)

(***************************************************************************)
(* Properties of the manifest that update_vendor leaves.                   *)
(***************************************************************************)
\* the positions of the archive's regular members named package/package.json
ManifestMembers ==
    {i \in 1..Len(archive) :
         archive[i].type = "reg" /\ archive[i].name = PackagePrefix \o Name.package_json}

\* the text of the artifact's manifest, when it has one
ArtifactManifestText ==
    archive[CHOOSE i \in ManifestMembers : \A j \in ManifestMembers : j <= i].data

HasParsableManifest ==
    ManifestMembers # {} /\ json_loads(ArtifactManifestText).ok

ArtifactManifest == json_loads(ArtifactManifestText).value

VendoredManifestPath == VENDOR_DIR \o <<Name.package_json>>

\* a dict as the set of its items, a nested dict as the set of its items:
\* Python's == on dicts does not look at the order
AsMapping(d) ==
    {<<d[i][1], [t |-> d[i][2].t, s |-> d[i][2].s,
                 d |-> {d[i][2].d[j] : j \in 1..Len(d[i][2].d)}]>> : i \in 1..Len(d)}

UnwantedKeys == {Key.devDependencies, Key.packageManager, Key.pnpm, Key.workspaces}

\* C14: after update_vendor has returned for an artifact whose manifest
\* parses, the vendored manifest is the sanitized form of the artifact's
\* manifest: same version, none of devDependencies, packageManager, pnpm,
\* workspaces, and dependencies whose keys are all in the allow-list.
C14_VendoredManifestSanitized ==
    (op = "update_vendor" /\ pc = "done" /\ HasParsableManifest)
    => /\ Exists(fs, VendoredManifestPath)
       /\ LET vendored == json_loads(fs[VendoredManifestPath].data)
              wanted == sanitize_package_data(ArtifactManifest)
          IN  /\ vendored.ok
              /\ wanted.raised = "no"
              /\ AsMapping(vendored.value) = AsMapping(wanted.value)
              /\ \A k \in UnwantedKeys : ~has_key(vendored.value, k)
              /\ has_key(ArtifactManifest, Key.version)
                 => /\ has_key(vendored.value, Key.version)
                    /\ dict_get(vendored.value, Key.version)
                           = dict_get(ArtifactManifest, Key.version)
              /\ has_key(vendored.value, Key.dependencies)
              /\ \A item \in AsMapping(vendored.value) :
                     item[1] = Key.dependencies
                     => \A dep \in item[2].d : dep[1] \in ALLOWED_RUNTIME_DEPENDENCIES

SanitizeReturned ==
    op = "sanitize_package_data" /\ pc \in {"returned", "again"} /\ result.raised = "no"

\* the items of the manifest's "dependencies" mapping, none if the key is
\* missing or holds no mapping
DependenciesOf(m) ==
    IF has_key(m, Key.dependencies) /\ dict_get(m, Key.dependencies).t = "dict"
    THEN dict_get(m, Key.dependencies).d
    ELSE <<>>

ItemSet(d) == {d[i] : i \in 1..Len(d)}

\* C16: the "dependencies" of the result of sanitize_package_data(m) is the
\* restriction of m's dependencies to the allow-list, each kept name with
\* its original version range, and its keys come in sorted order.
C16_DependenciesRestrictedSorted ==
    SanitizeReturned
    => /\ has_key(result.value, Key.dependencies)
       /\ dict_get(result.value, Key.dependencies).t = "dict"
       /\ LET kept == DependenciesOf(result.value)
          IN  /\ ItemSet(kept) =
                     {item \in ItemSet(DependenciesOf(pkg_before)) :
                          item[1] \in {Package.build_utils, Package.detect_agent, Package.python}}
              /\ \A i, j \in 1..Len(kept) : i < j => str_lt(kept[i][1], kept[j][1])

\* the call returned for dependencies that held two allow-listed names out of
\* order and a name that is not allow-listed
C16_Witness ==
    /\ SanitizeReturned
    /\ pc = "returned"
    /\ keys(DependenciesOf(pkg_before)) = <<Package.python, Package.chalk, Package.build_utils>>
    /\ keys(DependenciesOf(result.value)) = <<Package.build_utils, Package.python>>

\* C17: sanitize_package_data applied to its own result returns that result,
\* the order of all keys included.
C17_SanitizeIdempotent ==
    (op = "sanitize_package_data" /\ pc = "again")
    => /\ result_again.raised = "no"
       /\ result_again.value = result.value

\* the second call returned, for a manifest the first call had changed
C17_Witness ==
    /\ op = "sanitize_package_data"
    /\ pc = "again"
    /\ has_key(pkg_before, Key.devDependencies)
    /\ Len(DependenciesOf(pkg_before)) > Len(DependenciesOf(result.value))
    /\ Len(DependenciesOf(result.value)) = 2

\* C18: the result has none of devDependencies, packageManager, pnpm,
\* workspaces; every other top-level key of m except dependencies is in the
\* result with the value it had; and the argument holds after the call
\* what it held before.
C18_FrameOfSanitize ==
    (op = "sanitize_package_data" /\ pc \in {"returned", "again"})
    => /\ pkg_object = pkg_before
       /\ result.raised = "no"
          => /\ \A k \in {Key.devDependencies, Key.packageManager, Key.pnpm, Key.workspaces} :
                    ~has_key(result.value, k)
             /\ \A i \in 1..Len(pkg_before) :
                    pkg_before[i][1] \notin
                        {Key.devDependencies, Key.packageManager, Key.pnpm, Key.workspaces,
                         Key.dependencies}
                    => /\ has_key(result.value, pkg_before[i][1])
                       /\ dict_get(result.value, pkg_before[i][1]) = pkg_before[i][2]

\* the call returned for a manifest with a name and a key to drop
C18_Witness ==
    /\ SanitizeReturned
    /\ has_key(pkg_before, Key.name)
    /\ has_key(pkg_before, Key.pnpm)
    /\ has_key(result.value, Key.name)
    /\ ~has_key(result.value, Key.pnpm)

\* C19: sanitize_package_data raises for no manifest; without a
\* "dependencies" key the result's dependencies is the empty mapping.
C19_SanitizeNeverRaises ==
    (op = "sanitize_package_data" /\ pc \in {"returned", "again"})
    => /\ result.raised = "no"
       /\ ~has_key(pkg_before, Key.dependencies)
          => dict_get(result.value, Key.dependencies) = Dict(<<>>)

(***************************************************************************)
(* Properties of the `check` command.                                      *)
(***************************************************************************)
Exited == op \in {"cmd_check", "cmd_update"} /\ pc = "exited"

\* C20: the check command exits nonzero when the latest version cannot be
\* resolved and when, after vendoring, the vendored manifest does not carry
\* the requested version; it exits 0 when latest equals current.
C20_CheckExitCode ==
    Exited
    => /\ latest = <<>> => exit_code # 0
       /\ (updated /\ vendored_version # latest) => exit_code # 0
       /\ (latest \notin {None, <<>>} /\ latest = current) => exit_code = 0
       /\ exit_code = 0 => latest \notin {None, <<>>}

(***************************************************************************)
(* Properties of the outputs of the `check` and `update` commands.         *)
(***************************************************************************)
\* the command returned with --github-outputs given
ReturnedWithOutputs == Exited /\ exit_code = 0 /\ args.github_outputs

\* C21: with outputs enabled, a command that returns made exactly one
\* write; it says updated=true, with new_version, only if update_vendor was
\* called for that version and returned in this run, and it says
\* updated=false without new_version when no update occurred.
C21_OutputsTellWhetherUpdated ==
    ReturnedWithOutputs
    => /\ Len(written) = 1
       /\ written[1].updated = "true"
          => updated /\ vendor_calls = <<written[1].new_version>>
       /\ ~updated => written[1] = [updated |-> "false", new_version |-> None]

\* C22: neither command calls update_vendor with the empty string as
\* version, and neither reports an empty new_version.
C22_EmptyLatestNeverVendored ==
    /\ \A i \in 1..Len(vendor_calls) : vendor_calls[i] # <<>>
    /\ \A i \in 1..Len(written) : written[i].new_version # <<>>

(***************************************************************************)
(* Properties of npm_pack.                                                 *)
(***************************************************************************)
Packed == op = "npm_pack" /\ pc = "returned"

\* the name the tool reported, stripped
ReportedName == strip(decode_maybe_bytes(completed.stdout))

\* the reported name is non-empty and names an entry of out_dir
ReportedExists == ReportedName # <<>> /\ Exists(fs, dest \o <<ReportedName>>)

\* the entries of out_dir named "vercel-" + anything + ".tgz"
MatchingTarballs ==
    {p \in DOMAIN fs :
        /\ Len(p) = Len(dest) + 1
        /\ SubSeq(p, 1, Len(dest)) = dest
        /\ \E k \in 0..(Len(p[Len(p)]) - 11) :
               p[Len(p)] = <<"v", "e", "r", "c", "e", "l", "-">>
                           \o SubSeq(p[Len(p)], 8, 7 + k)
                           \o <<".", "t", "g", "z">>}

\* C23: npm_pack raises 'pack failed' with the tool's stderr whenever the
\* status is nonzero; otherwise it returns the reported file when the
\* reported name is non-empty and exists in out_dir, else an entry of
\* out_dir matching vercel-*.tgz, and raises 'did not produce a tarball'
\* when there is neither; a returned path exists.
C23_NpmPackResult ==
    Packed
    => /\ completed.returncode # 0
          => /\ pack_result.raised = "pack failed"
             /\ pack_result.text = strip(decode_maybe_bytes(completed.stderr))
       /\ (completed.returncode = 0 /\ ReportedExists)
          => /\ pack_result.raised = "no"
             /\ pack_result.path = dest \o <<ReportedName>>
       /\ (completed.returncode = 0 /\ ~ReportedExists /\ MatchingTarballs # {})
          => /\ pack_result.raised = "no"
             /\ pack_result.path \in MatchingTarballs
       /\ (completed.returncode = 0 /\ ~ReportedExists /\ MatchingTarballs = {})
          => pack_result.raised = "did not produce a tarball"
       /\ pack_result.raised = "no" => Exists(fs, pack_result.path)

\* the reported file was returned although another entry matches the pattern
C23_Witness ==
    /\ Packed
    /\ completed.returncode = 0
    /\ ReportedExists
    /\ pack_result.path = dest \o <<ReportedName>>
    /\ MatchingTarballs \ {pack_result.path} # {}

(***************************************************************************)
(* Properties of concurrent invocations of update_vendor.                  *)
(***************************************************************************)
\* both invocations returned without an exception
BothReturned == op = "concurrent" /\ \A i \in Procs : procs[i].pc = "done"

\* no invocation reached line 280 while the other was between lines 280 and 289
Serialized == \A i \in Procs : procs[i].alone

\* the vendored directory holds a file only the tree of invocation i has
HoldsOwnFileOf(i) ==
    \E rel \in DOMAIN NewTree(i) :
        /\ NewTree(i)[rel].kind = "file"
        /\ \A j \in Procs \ {i} : rel \notin DOMAIN NewTree(j)
        /\ rel \in DOMAIN VendorRel(fs)
        /\ VendorRel(fs)[rel] = NewTree(i)[rel]

\* C24: concurrent invocations are correct only when serialized: if no
\* invocation entered the replacement step while the other was inside it
\* and both returned, the vendored directory holds exactly the tree of the
\* invocation that came last (and the keep-marker); the witness is an
\* interleaving after which it holds files of both trees.
C24_SerializedReplacesExactly ==
    (BothReturned /\ Serialized)
    => \A i \in Procs :
           procs[i].rank = Cardinality(Procs)
           => VendorRel(fs) = NewTree(i) @@ KeptMarker

\* both invocations returned and the vendored directory holds a file of
\* each version that the other version does not have
C24_Witness ==
    /\ BothReturned
    /\ ~Serialized
    /\ \A i \in Procs : HoldsOwnFileOf(i)

====
